---- MODULE Spec2Model ----
(***************************************************************************)
(* A model of the "largest" tool of cpp-cli-toolbox: main() and            *)
(* listLargestFiles() in their three heap-based revisions.                 *)
(*                                                                         *)
(*   rev = "min" : src/unnamed/part_003 lines 1-215   (min-heap, reversed  *)
(*                 after draining, recursive_directory_iterator)           *)
(*   rev = "wl"  : src/unnamed/part_003 lines 216-576 (max-heap, explicit  *)
(*                 worklist directoriesToProcess)                          *)
(*   rev = "cur" : src/unnamed/part_002               (max-heap,           *)
(*                 recursive_directory_iterator, per-entry try/catch)      *)
(*                                                                         *)
(* Spec     is listLargestFiles: the walk, the selection, the drain and    *)
(*          the display loop, for every argument tuple main can pass.      *)
(* SpecMain is main of the current command line (part_002 lines 208-285,   *)
(*          textually the same as part_003 lines 496-576): the argument    *)
(*          loop, the validation of targetPath, the call and the exit code.*)
(*                                                                         *)
(* The file system is the environment: what opening a directory, reading   *)
(* a status or reading a size returns is drawn when the call is made.      *)
(***************************************************************************)
EXTENDS Integers, Sequences, FiniteSets, TLC

VARIABLES
    rev,                  \* which revision of largest.cpp runs
    numFiles, depth, fileMask,           \* arguments of listLargestFiles
    pc,                   \* position in the program
    heap,                 \* std::priority_queue<FileEntry>, as the bag of its entries
    fileCount, inaccessibleCount, maxDepth,
    it,                   \* recursive_directory_iterator: stack of [dir, idx]
    directoriesToProcess, \* worklist of rev "wl"
    cur,                  \* rev "wl": the directory_iterator of currentDir, <<>> when none
    files,                \* the vector the heap is drained into
    out,                  \* the result lines written to stdout
    ub,                   \* TRUE once undefined behaviour was executed
    offered,              \* history: candidates that reached the selection if-chain
    opened,               \* history: directories an open was attempted on
    unlistable,           \* history: directories whose open did not succeed
    lost,                 \* history: entries whose status or size read threw
    faults,               \* history: number of failures the environment injected
    relFailed,            \* history: fs::relative threw while computing currentDepth
    calls,                \* history: the file system calls of the walk and their answers
    sinceUpdate,          \* now - lastUpdate when the clock was last read, in ticks
    rendered,             \* history: age of the latest status line, gap to the one before
    earlier,              \* history: what an earlier walk over the same tree left
    argv, i,              \* main: the arguments after argv[0], the loop index
    targetPath,           \* main: "cwd" or the directory argument
    exitCode,             \* main: -1 while running
    positionals,          \* history: arguments that reached the directory-or-mask branch
    lastN,                \* history: how the last -n ended ("none", "ok", "bad", "missing")
    lastD,                \* history: how the last -d ended
    walked,               \* history: listLargestFiles was called
    flags,                \* main: the switches set among "b", "r", "p", "v"
    rootStatus,           \* history: what the validation found targetPath to be
    verbose, showProgress,               \* arguments of listLargestFiles
    cursor,               \* the terminal's cursor: "shown" or "hidden"
    summary,              \* the final "Skipped ..." line was written to stderr
    callFilename, callMask, matched,     \* a call of matchesFileMask and its result
    callSize, text,       \* a call of formatFileSize and its result
    onRev,                \* which on.cpp runs: "on" (src/on) or "at" (src/at)
    argIndex, showHelp, delayMode, noClear, outputMode, progressBarLength,
    timeArgument, command,               \* on: locals of main
    hh, mm, ss, original_fields,         \* on: the parsed time
    currentSeconds,       \* on: the local time of day read, -1 when not read
    timeDifference,       \* on: the seconds to wait
    waited,               \* on: how much of the wait has passed: "none", "part", "all"
    executed,             \* history: number of calls of std::system
    systemResult          \* what std::system returned, "none" before it is called

vars == << rev, numFiles, depth, fileMask, pc, heap, fileCount, inaccessibleCount,
           maxDepth, it, directoriesToProcess, cur, files, out, ub, offered, opened,
           unlistable, lost, faults, relFailed, calls, sinceUpdate, rendered, earlier,
           argv, i, targetPath, exitCode,
           positionals, lastN, lastD, walked, flags, rootStatus, verbose,
           showProgress, cursor, summary, callFilename, callMask, matched, callSize,
           text, onRev, argIndex, showHelp, delayMode, noClear, outputMode,
           progressBarLength, timeArgument, command, hh, mm, ss, original_fields,
           currentSeconds, timeDifference, waited, executed, systemResult >>

\* The calls of the functions checked on their own.
fnVars == << callFilename, callMask, matched, callSize, text >>

\* What belongs to the programs and calls that are not running.
\* The locals of on's main.
onVars == << onRev, argIndex, showHelp, delayMode, noClear, outputMode,
             progressBarLength, timeArgument, command, hh, mm, ss, original_fields,
             currentSeconds, timeDifference, waited, executed, systemResult >>

idleVars == << fnVars, onVars, earlier >>

\* What the progress display keeps between two iterations.
progressVars == << sinceUpdate, rendered >>

listVars == << rev, numFiles, depth, fileMask, heap, fileCount, inaccessibleCount,
               maxDepth, it, directoriesToProcess, cur, files, out, ub, offered,
               opened, unlistable, lost, faults, relFailed, calls, progressVars >>

mainVars == << argv, i, targetPath, exitCode, positionals, lastN, lastD, walked,
              flags, rootStatus >>

----------------------------------------------------------------------------
\* Bounds of the model.

\* File sizes the file system reports are 1..MaxSize.
MaxSize == 3
\* Largest bounded capacity passed as numFiles.
MaxK == 2
\* Largest depth limit passed as depth.
MaxDepthArg == 1
\* Failures the environment injects during one walk.
MaxFaults == 1
\* Arguments on the command line after argv[0].
MaxArgs == 4
\* Longest filename and longest mask handed to matchesFileMask on its own.
MaxNameLen == 3
MaxMaskLen == 3
\* Most arguments on is started with.
MaxOnArgs == 3
\* Most arguments on is started with when the order of its steps is checked.
MaxOnRunArgs == 4

\* Program constants.
DefaultNumFiles == 50
DefaultDepth == -1

Min(a, b) == IF a < b THEN a ELSE b
\* A variant of Max that yields its second argument.
MaxLatest(a, b) == b
Max(a, b) == IF a > b THEN a ELSE b

----------------------------------------------------------------------------
\* The directory tree that is scanned.  A path is the sequence of names below
\* the scan root; a name is a sequence of characters.
\*
\*   root/            a.t
\*   root/A/          a.t
\*   root/A/B/        b.l
\*   root/A/B/C/      c.t
\*   root/E/          B.T

Root == << >>
NameA == << "A" >>
NameB == << "B" >>
NameC == << "C" >>
NameE == << "E" >>
DirA == << NameA >>
DirB == << NameA, NameB >>
DirC == << NameA, NameB, NameC >>
DirE == << NameE >>
Dirs == { Root, DirA, DirB, DirC, DirE }

FileEnt(name) == [ name |-> name, isDir |-> FALSE ]
DirEnt(name) == [ name |-> name, isDir |-> TRUE ]

\* What listing a directory yields, in the order the iterator yields it.
Entries(d) ==
    IF d = Root THEN << FileEnt(<< "a", ".", "t" >>), DirEnt(NameA), DirEnt(NameE) >>
    ELSE IF d = DirA THEN << FileEnt(<< "a", ".", "t" >>), DirEnt(NameB) >>
    ELSE IF d = DirB THEN << FileEnt(<< "b", ".", "l" >>), DirEnt(NameC) >>
    ELSE IF d = DirC THEN << FileEnt(<< "c", ".", "t" >>) >>
    ELSE IF d = DirE THEN << FileEnt(<< "B", ".", "T" >>) >>
    ELSE << >>

\* The directory a path lies in, and the number of levels of a directory below
\* the root (the root is level 0).
Parent(p) == SubSeq(p, 1, Len(p) - 1)
Level(d) == Len(d)
IsPrefix(a, b) == Len(a) <= Len(b) /\ SubSeq(b, 1, Len(a)) = a

\* All regular files of the tree, as paths.
AllFiles == { Append(d, Entries(d)[k].name) : <<d, k>> \in
                { x \in Dirs \X (1..4) : x[2] <= Len(Entries(x[1]))
                                          /\ ~Entries(x[1])[x[2]].isDir } }

----------------------------------------------------------------------------
\* matchesFileMask.  Strings are sequences of characters.

\* The characters the first regex_replace escapes.
RegexSpecial == { ".", "^", "$", "|", "(", ")", "[", "]", "{", "}", "\\" }

UpperCase == << "A", "B", "C", "D", "E", "F", "G", "H", "I", "J", "K", "L", "M",
                "N", "O", "P", "Q", "R", "S", "T", "U", "V", "W", "X", "Y", "Z" >>
LowerCase == << "a", "b", "c", "d", "e", "f", "g", "h", "i", "j", "k", "l", "m",
                "n", "o", "p", "q", "r", "s", "t", "u", "v", "w", "x", "y", "z" >>

\* std::regex_constants::icase: letters compare by their lower-case form.
ToLower(c) ==
    IF \E k \in 1..Len(UpperCase) : UpperCase[k] = c
    THEN LowerCase[CHOOSE k \in 1..Len(UpperCase) : UpperCase[k] = c]
    ELSE c

RECURSIVE EscapeSpecial(_)
\* regex_replace(pattern, regex(R"([.^$|()\[\]{}\\])"), R"(\$&)")
EscapeSpecial(s) ==
    IF s = << >> THEN << >>
    ELSE (IF Head(s) \in RegexSpecial THEN << "\\", Head(s) >> ELSE << Head(s) >>)
         \o EscapeSpecial(Tail(s))

RECURSIVE ReplaceChar(_, _, _)
\* regex_replace of every occurrence of the single character c by the text r.
ReplaceChar(s, c, r) ==
    IF s = << >> THEN << >>
    ELSE (IF Head(s) = c THEN r ELSE << Head(s) >>) \o ReplaceChar(Tail(s), c, r)

\* The pattern handed to std::regex, without the anchors ^ and $ (regex_match
\* matches the whole filename with or without them).
MaskToPattern(mask) ==
    ReplaceChar(ReplaceChar(EscapeSpecial(mask), "*", << ".", "*" >>), "?", << "." >>)

\* Width of the atom that starts at p[k]: an escaped character or one character.
AtomWidth(p, k) == IF p[k] = "\\" THEN 2 ELSE 1

RECURSIVE PatternOk(_, _, _)
\* std::regex construction: a quantifier with nothing to repeat is a regex_error.
\* afterAtom says whether the text before p[k] ends in an unquantified atom.
PatternOk(p, k, afterAtom) ==
    IF k > Len(p) THEN TRUE
    ELSE IF p[k] \in { "*", "+" } THEN afterAtom /\ PatternOk(p, k + 1, FALSE)
    ELSE IF p[k] = "\\" THEN k < Len(p) /\ PatternOk(p, k + 2, TRUE)
    ELSE PatternOk(p, k + 1, TRUE)

\* A variant of AtomAccepts that compares letters with their case.
AtomAcceptsCase(p, k, c, icase) ==
    IF p[k] = "\\" THEN c = p[k + 1]
    ELSE IF p[k] = "." THEN TRUE
    ELSE c = p[k]

\* Whether the atom at p[k] accepts the character c.
AtomAccepts(p, k, c, icase) ==
    IF p[k] = "\\" THEN c = p[k + 1]
    ELSE IF p[k] = "." THEN TRUE
    ELSE IF icase THEN ToLower(c) = ToLower(p[k])
    ELSE c = p[k]

RECURSIVE RegexMatch(_, _, _, _, _)
\* std::regex_match of s[j..] against p[k..].
RegexMatch(p, k, s, j, icase) ==
    IF k > Len(p) THEN j > Len(s)
    ELSE LET w == AtomWidth(p, k)
             q == IF k + w <= Len(p) THEN p[k + w] ELSE ""
             here == j <= Len(s) /\ AtomAccepts(p, k, s[j], icase)
         IN  IF q = "*" THEN RegexMatch(p, k + w + 1, s, j, icase)
                             \/ (here /\ RegexMatch(p, k, s, j + 1, icase))
             ELSE IF q = "+" THEN here /\ (RegexMatch(p, k + w + 1, s, j + 1, icase)
                                           \/ RegexMatch(p, k, s, j + 1, icase))
             ELSE here /\ RegexMatch(p, k + w, s, j + 1, icase)

\* filename.find(mask) != npos
Contains(s, sub) ==
    \E k \in 0..(Len(s) - Len(sub)) : SubSeq(s, k + 1, k + Len(sub)) = sub

\* matchesFileMask of revisions "cur" and "wl".
matchesFileMask(filename, mask) ==
    IF mask = << "*" >> THEN TRUE
    ELSE LET pattern == MaskToPattern(mask)
         IN  IF PatternOk(pattern, 1, FALSE)
             THEN RegexMatch(pattern, 1, filename, 1, TRUE)
             ELSE Contains(filename, mask)

\* matchesFileMask of revision "min": nothing is escaped and case matters.  It
\* is modelled for masks of letters, digits, '.', '*', '?' and '+'.
matchesFileMaskMin(filename, mask) ==
    IF mask = << "*" >> THEN TRUE
    ELSE LET regexPattern ==
                 ReplaceChar(ReplaceChar(mask, "*", << ".", "*" >>), "?", << "." >>)
         IN  IF PatternOk(regexPattern, 1, FALSE)
             THEN RegexMatch(regexPattern, 1, filename, 1, FALSE)
             ELSE Contains(filename, mask)

Matches(r, filename, mask) ==
    IF r = "min" THEN matchesFileMaskMin(filename, mask)
    ELSE matchesFileMask(filename, mask)

MaskAll == << "*" >>
MaskT == << "*", ".", "t" >>

----------------------------------------------------------------------------
\* FileEntry and the priority queue.  std::priority_queue keeps a vector as a
\* binary heap with std::push_heap and std::pop_heap; heap is that vector, and
\* heap[1] is heap.top().

\* FileEntry::operator<: "min" orders by size descending (a min-heap), "wl"
\* and "cur" by size ascending (a max-heap).
FileEntryLess(r, a, b) ==
    IF r = "min" THEN a.size > b.size ELSE a.size < b.size

RECURSIVE SiftUp(_, _, _, _, _)
\* std::__push_heap: the hole at 0-based index hole moves up while its parent
\* is less than value and the hole is below topIndex; value lands in the hole.
SiftUp(r, v, hole, topIndex, value) ==
    LET parent == (hole - 1) \div 2
    IN  IF hole > topIndex /\ FileEntryLess(r, v[parent + 1], value)
        THEN SiftUp(r, [ v EXCEPT ![hole + 1] = v[parent + 1] ], parent, topIndex, value)
        ELSE [ v EXCEPT ![hole + 1] = value ]

RECURSIVE SiftDown(_, _, _, _)
\* std::__adjust_heap, first part: the hole moves down to a leaf, each time
\* taking the child that is not less than its sibling.  The result is the
\* vector and the index of the hole.
SiftDown(r, v, hole, len) ==
    IF hole < (len - 1) \div 2
    THEN LET right == 2 * (hole + 1)
             child == IF FileEntryLess(r, v[right + 1], v[right]) THEN right - 1
                      ELSE right
         IN  SiftDown(r, [ v EXCEPT ![hole + 1] = v[child + 1] ], child, len)
    ELSE IF len % 2 = 0 /\ hole = (len - 2) \div 2
    THEN LET child == 2 * (hole + 1) - 1
         IN  << [ v EXCEPT ![hole + 1] = v[child + 1] ], child >>
    ELSE << v, hole >>

\* heap.push(e): c.push_back(e); std::push_heap(c.begin(), c.end()).
Push(r, h, e) == SiftUp(r, Append(h, e), Len(h), 0, e)

\* heap.pop(): std::pop_heap(c.begin(), c.end()); c.pop_back().
Pop(r, h) ==
    IF Len(h) <= 1 THEN << >>
    ELSE LET len == Len(h) - 1
             value == h[Len(h)]
             down == SiftDown(r, SubSeq(h, 1, len), 0, len)
         IN  SiftUp(r, down[1], down[2], 0, value)

\* heap.top()
Top(h) == h[1]

\* The selection if-chain reads heap.top() of an empty heap: numFiles is
\* neither -1 nor above the heap's size, and the heap is empty.
TopOfEmpty(n, h) == n # -1 /\ ~(Len(h) < n) /\ h = << >>

\* A variant of Selected that also replaces the top by a candidate of equal size.
SelectedOrEqual(r, n, h, e) ==
    IF n = -1 THEN Push(r, h, e)
    ELSE IF Len(h) < n THEN Push(r, h, e)
    ELSE IF e.size >= Top(h).size THEN Push(r, Pop(r, h), e)
    ELSE h

\* A variant of Selected that pushes a larger candidate without the pop.
SelectedNoPop(r, n, h, e) ==
    IF n = -1 THEN Push(r, h, e)
    ELSE IF Len(h) < n THEN Push(r, h, e)
    ELSE IF e.size > Top(h).size THEN Push(r, h, e)
    ELSE h

\* The heap the selection if-chain leaves, for a candidate e offered to a heap h
\* with capacity n (-1: unbounded), when top() is defined.
Selected(r, n, h, e) ==
    IF n = -1 THEN Push(r, h, e)
    ELSE IF Len(h) < n THEN Push(r, h, e)
    ELSE IF e.size > Top(h).size THEN Push(r, Pop(r, h), e)
    ELSE h

RECURSIVE DrainLoop(_, _, _)
\* while (!heap.empty()) { files.push_back(heap.top()); heap.pop(); }
DrainLoop(r, h, v) ==
    IF h = << >> THEN v ELSE DrainLoop(r, Pop(r, h), Append(v, Top(h)))

RECURSIVE Reverse(_)
Reverse(s) == IF s = << >> THEN << >> ELSE Append(Reverse(Tail(s)), Head(s))

\* A variant of Drained that leaves out the reversal after the drain loop.
DrainedNoReverse(r, v) == v

\* The vector after the drain loop: revision "min" reverses it.
Drained(r, v) == IF r = "min" THEN Reverse(v) ELSE v

RECURSIVE DisplayLoopCapped(_, _, _, _)
\* A variant of DisplayLoop that tests count < numFiles alone.
DisplayLoopCapped(n, v, k, written) ==
    IF k > Len(v) THEN written
    ELSE IF Len(written) < n
         THEN DisplayLoopCapped(n, v, k + 1, Append(written, v[k]))
         ELSE DisplayLoopCapped(n, v, k + 1, written)

RECURSIVE DisplayLoop(_, _, _, _)
\* The display loop: entry k of v is written while numFiles is -1 or count is
\* below numFiles.
DisplayLoop(n, v, k, written) ==
    IF k > Len(v) THEN written
    ELSE IF n = -1 \/ Len(written) < n
         THEN DisplayLoop(n, v, k + 1, Append(written, v[k]))
         ELSE DisplayLoop(n, v, k + 1, written)

----------------------------------------------------------------------------
\* The environment's answers.

Sizes == 1..MaxSize
MayFail == faults < MaxFaults
OpenOutcomes == { "ok" } \cup (IF MayFail THEN { "denied", "error" } ELSE { })

\* One call of the file system: what was called, on which path, how it ended
\* ("ok", "denied", "error"), and the size it returned (0 when it returned none).
Called(c, p, a, s) == [ call |-> c, path |-> p, answer |-> a, size |-> s ]

----------------------------------------------------------------------------
\* The progress display.  Time is counted in milliseconds up to the throttle
\* interval; between two reads of steady_clock nothing, half an interval or a
\* whole interval passes.

\* ... .count() >= 100
ThrottleMs == 100
Delays(reads) == IF reads THEN { 0, ThrottleMs \div 2, ThrottleMs } ELSE { 0 }

\* No status line was written yet.
NotRendered == [ since |-> -1, gap |-> -1 ]

\* An age d milliseconds later.
Elapsed(a, d) == IF a = -1 THEN -1 ELSE Min(a + d, ThrottleMs)

\* A status line is written d milliseconds after the clock was last read.
Render(d) == [ since |-> 0, gap |-> Elapsed(rendered.since, d) ]

\* if (showProgress) { now = ...; if (now - lastUpdate >= 100 ms) { write the
\* status line; lastUpdate = now; } } at the end of the branch of a matching
\* file.
PeriodicUpdate(progress, d) ==
    IF ~progress THEN UNCHANGED progressVars
    ELSE IF Elapsed(sinceUpdate, d) >= ThrottleMs
         THEN sinceUpdate' = 0 /\ rendered' = Render(d)
         ELSE /\ sinceUpdate' = Elapsed(sinceUpdate, d)
              /\ rendered' = [ rendered EXCEPT !.since = Elapsed(@, d) ]

\* The status line written in a catch block: now is read, the line is written,
\* and lastUpdate keeps its value.
ForcedUpdate(force, d) ==
    IF ~force THEN UNCHANGED progressVars
    ELSE sinceUpdate' = Elapsed(sinceUpdate, d) /\ rendered' = Render(d)

----------------------------------------------------------------------------
\* recursive_directory_iterator (revisions "min" and "cur").  it is the stack of
\* open directories, innermost last, each with the position of its current
\* entry; the empty stack is the end iterator.

ItTop == it[Len(it)]
ItEntry == Entries(ItTop.dir)[ItTop.idx]
ItPath == Append(ItTop.dir, ItEntry.name)
\* it.depth()
ItDepth == Len(it) - 1

RECURSIVE Advance(_)
\* Move to the next entry, leaving every directory that is exhausted.
Advance(st) ==
    IF st = << >> THEN << >>
    ELSE LET t == st[Len(st)]
         IN  IF t.idx < Len(Entries(t.dir))
             THEN [ st EXCEPT ![Len(st)].idx = t.idx + 1 ]
             ELSE Advance(SubSeq(st, 1, Len(st) - 1))

\* Enter directory d, which was opened successfully.
Descend(st, d) ==
    IF Entries(d) = << >> THEN Advance(st)
    ELSE Append(st, [ dir |-> d, idx |-> 1 ])

\* The test that prunes an entry: depth != -1 && it.depth() > depth.
PruneEntry(limit, itDepth) == limit # -1 /\ itDepth > limit

\* ++it after the loop body, with f failures injected so far.  When recursion is
\* pending and the entry is a directory, the directory is opened: a permission
\* error is skipped (skip_permission_denied), any other error is thrown out of
\* the for statement into the catch around the loop.
Increment(pending, f, cs) ==
    IF pending /\ ItEntry.isDir
    THEN \E o \in { "ok" } \cup (IF f < MaxFaults THEN { "denied", "error" } ELSE { }) :
            /\ calls' = Append(cs, Called("open", ItPath, o, 0))
            /\ opened' = opened \cup { ItPath }
            /\ unlistable' = IF o = "ok" THEN unlistable ELSE unlistable \cup { ItPath }
            /\ faults' = IF o = "ok" THEN f ELSE f + 1
            /\ it' = IF o = "ok" THEN Descend(it, ItPath)
                     ELSE IF o = "denied" THEN Advance(it)
                     ELSE << >>
            /\ pc' = IF it' = << >> THEN "drain" ELSE "walk"
    ELSE /\ it' = Advance(it)
         /\ faults' = f
         /\ calls' = cs
         /\ pc' = IF it' = << >> THEN "drain" ELSE "walk"
         /\ UNCHANGED << opened, unlistable >>

\* The exception leaves the loop: the catch around it, then the drain.
AbortWalk(f, cs) ==
    /\ it' = << >>
    /\ faults' = f
    /\ calls' = cs
    /\ pc' = "drain"
    /\ UNCHANGED << opened, unlistable >>

cfgVars == << rev, numFiles, depth, fileMask, verbose, showProgress, idleVars >>
wlVars == << directoriesToProcess, cur, relFailed >>
outVars == << files, out, summary >>

\* if (showProgress) std::cout << "\033[?25l";
HideCursor(progress, c) == IF progress THEN "hidden" ELSE c

\* if (showProgress) std::cout << ... "\r\033[?25h";
ShowCursor(progress, c) == IF progress THEN "shown" ELSE c

\* if (verbose && inaccessibleCount > 0) std::cerr << "Skipped ...": revisions
\* "cur" and "wl"; revision "min" has no such line.
Summary(r, verb, count) == r # "min" /\ verb /\ count > 0

\* The cursor is hidden and the iterator constructed on the scan root.
RI_Begin ==
    /\ pc = "start" /\ rev \in { "min", "cur" }
    /\ \E o \in OpenOutcomes :
          /\ calls' = Append(calls, Called("open", Root, o, 0))
          /\ opened' = opened \cup { Root }
          /\ unlistable' = IF o = "ok" THEN unlistable ELSE unlistable \cup { Root }
          /\ faults' = IF o = "ok" THEN faults ELSE faults + 1
          /\ it' = IF o = "ok" THEN Descend(<< >>, Root) ELSE << >>
          /\ pc' = IF it' = << >> THEN "drain" ELSE "walk"
    /\ cursor' = HideCursor(showProgress, cursor)
    /\ UNCHANGED << cfgVars, wlVars, outVars, mainVars, heap, fileCount,
                    inaccessibleCount, maxDepth, ub, offered, lost, progressVars >>

\* An entry deeper than the limit: recursion is disabled and the entry skipped.
RI_Prune ==
    /\ pc = "walk" /\ rev \in { "min", "cur" } /\ it # << >>
    /\ PruneEntry(depth, ItDepth)
    /\ Increment(FALSE, faults, calls)
    /\ UNCHANGED << cursor, cfgVars, wlVars, outVars, mainVars, heap, fileCount,
                    inaccessibleCount, maxDepth, ub, offered, lost, progressVars >>

\* An entry that is a directory, or a file the mask rejects.
RI_Pass ==
    /\ pc = "walk" /\ rev \in { "min", "cur" } /\ it # << >>
    /\ ~PruneEntry(depth, ItDepth)
    /\ ItEntry.isDir \/ ~Matches(rev, ItEntry.name, fileMask)
    /\ Increment(TRUE, faults, Append(calls, Called("status", ItPath, "ok", 0)))
    /\ UNCHANGED << cursor, cfgVars, wlVars, outVars, mainVars, heap, fileCount,
                    inaccessibleCount, maxDepth, ub, offered, lost, progressVars >>

\* is_regular_file throws.  "cur" counts the entry and goes on; "min" has no
\* try block inside the loop.
RI_StatFail ==
    /\ pc = "walk" /\ rev \in { "min", "cur" } /\ it # << >>
    /\ ~PruneEntry(depth, ItDepth)
    /\ MayFail
    /\ lost' = lost \cup { ItPath }
    /\ LET cs == Append(calls, Called("status", ItPath, "error", 0))
       IN  IF rev = "cur"
           THEN /\ inaccessibleCount' = inaccessibleCount + 1
                /\ Increment(TRUE, faults + 1, cs)
                /\ LET force == showProgress /\ inaccessibleCount' = 1
                   IN  \E d \in Delays(force) : ForcedUpdate(force, d)
           ELSE /\ UNCHANGED << inaccessibleCount, progressVars >>
                /\ AbortWalk(faults + 1, cs)
    /\ UNCHANGED << cursor, cfgVars, wlVars, outVars, mainVars, heap, fileCount,
                    maxDepth, ub, offered >>

\* A regular file the mask accepts whose file_size throws.
RI_SizeFail ==
    /\ pc = "walk" /\ rev \in { "min", "cur" } /\ it # << >>
    /\ ~PruneEntry(depth, ItDepth)
    /\ ~ItEntry.isDir /\ Matches(rev, ItEntry.name, fileMask)
    /\ MayFail
    /\ fileCount' = fileCount + 1
    /\ maxDepth' = Max(maxDepth, ItDepth)
    /\ lost' = lost \cup { ItPath }
    /\ LET cs == calls \o << Called("status", ItPath, "ok", 0),
                              Called("size", ItPath, "error", 0) >>
       IN  IF rev = "cur"
           THEN /\ inaccessibleCount' = inaccessibleCount + 1
                /\ Increment(TRUE, faults + 1, cs)
                /\ LET force == showProgress /\ inaccessibleCount' = 1
                   IN  \E d \in Delays(force) : ForcedUpdate(force, d)
           ELSE /\ UNCHANGED << inaccessibleCount, progressVars >>
                /\ AbortWalk(faults + 1, cs)
    /\ UNCHANGED << cursor, cfgVars, wlVars, outVars, mainVars, heap, ub, offered >>

\* A regular file the mask accepts, of size s: the selection if-chain.
RI_Offer ==
    /\ pc = "walk" /\ rev \in { "min", "cur" } /\ it # << >>
    /\ ~PruneEntry(depth, ItDepth)
    /\ ~ItEntry.isDir /\ Matches(rev, ItEntry.name, fileMask)
    /\ ~TopOfEmpty(numFiles, heap)
    /\ \E s \in Sizes :
         LET e == [ path |-> ItPath, size |-> s ]
         IN  /\ offered' = Append(offered, e)
             /\ heap' = Selected(rev, numFiles, heap, e)
             /\ Increment(TRUE, faults,
                          calls \o << Called("status", ItPath, "ok", 0),
                                      Called("size", ItPath, "ok", s) >>)
    /\ fileCount' = fileCount + 1
    /\ maxDepth' = Max(maxDepth, ItDepth)
    /\ \E d \in Delays(showProgress) : PeriodicUpdate(showProgress, d)
    /\ UNCHANGED << cursor, cfgVars, wlVars, outVars, mainVars, inaccessibleCount, ub, lost >>

\* The same with numFiles = 0: heap.top() of an empty heap is undefined
\* behaviour.  The build may crash, may find the comparison false, or may find it
\* true and go on to pop and push.
RI_OfferUB ==
    /\ pc = "walk" /\ rev \in { "min", "cur" } /\ it # << >>
    /\ ~PruneEntry(depth, ItDepth)
    /\ ~ItEntry.isDir /\ Matches(rev, ItEntry.name, fileMask)
    /\ TopOfEmpty(numFiles, heap)
    /\ ub' = TRUE
    /\ fileCount' = fileCount + 1
    /\ maxDepth' = Max(maxDepth, ItDepth)
    /\ \E s \in Sizes, o \in { "crash", "false", "true" } :
         LET e == [ path |-> ItPath, size |-> s ]
         IN  /\ offered' = Append(offered, e)
             /\ heap' = IF o = "true" THEN << e >> ELSE heap
             /\ LET cs == calls \o << Called("status", ItPath, "ok", 0),
                                       Called("size", ItPath, "ok", s) >>
                IN  IF o = "crash"
                    THEN /\ pc' = "crashed"
                         /\ calls' = cs
                         /\ UNCHANGED << it, faults, opened, unlistable, progressVars >>
                    ELSE /\ Increment(TRUE, faults, cs)
                         /\ \E d \in Delays(showProgress) :
                               PeriodicUpdate(showProgress, d)
    /\ UNCHANGED << cursor, cfgVars, wlVars, outVars, mainVars, inaccessibleCount, lost >>

----------------------------------------------------------------------------
\* The worklist walker (revision "wl").  cur is << >> between directories and
\* << [dir, idx, depth] >> while the range-for over a directory_iterator runs.

riVars == << it >>

CurDir == cur[1].dir
CurEntry == Entries(CurDir)[cur[1].idx]
CurPath == Append(CurDir, CurEntry.name)

\* The test that skips a popped directory: depth != -1 && currentDepth > depth.
SkipDirectory(limit, currentDepth) == limit # -1 /\ currentDepth > limit

\* currentDepth of a popped directory d: 0 for the scan root, else the number of
\* components of fs::relative(d, path); 0 when fs::relative throws.
CurrentDepth(d, relThrows) ==
    IF d = Root THEN 0
    ELSE IF relThrows THEN 0
    ELSE Len(d)

\* The range-for moves to the next entry of currentDir.
NextEntry(c) ==
    IF c[1].idx < Len(Entries(c[1].dir))
    THEN << [ c[1] EXCEPT !.idx = c[1].idx + 1 ] >>
    ELSE << >>

\* The calls made to find currentDepth of a popped directory d: none for the scan
\* root, else fs::relative, which throws or returns.
RelativeCalls(d, relThrows) ==
    IF d = Root THEN << >>
    ELSE << Called("relative", d, IF relThrows THEN "error" ELSE "ok", 0) >>

\* The while loop ends when the worklist is empty.
WlPc(c, todo) == IF c = << >> /\ todo = << >> THEN "drain" ELSE "walk"

WL_Begin ==
    /\ pc = "start" /\ rev = "wl"
    /\ directoriesToProcess' = << Root >>
    /\ pc' = "walk"
    /\ cursor' = HideCursor(showProgress, cursor)
    /\ UNCHANGED << cfgVars, riVars, outVars, mainVars, cur, relFailed, heap,
                    fileCount, inaccessibleCount, maxDepth, ub, offered, opened,
                    unlistable, lost, faults, calls, progressVars >>

\* A directory is popped that lies deeper than the limit: continue.
WL_SkipDeep ==
    /\ pc = "walk" /\ rev = "wl" /\ cur = << >> /\ directoriesToProcess # << >>
    /\ LET n == Len(directoriesToProcess)
           d == directoriesToProcess[n]
       IN  \E relThrows \in { FALSE } \cup (IF MayFail /\ d # Root THEN { TRUE } ELSE { }) :
              /\ SkipDirectory(depth, CurrentDepth(d, relThrows))
              /\ directoriesToProcess' = SubSeq(directoriesToProcess, 1, n - 1)
              /\ faults' = IF relThrows THEN faults + 1 ELSE faults
              /\ relFailed' = (relFailed \/ relThrows)
              /\ calls' = calls \o RelativeCalls(d, relThrows)
              /\ pc' = WlPc(<< >>, directoriesToProcess')
    /\ UNCHANGED << cursor, cfgVars, riVars, outVars, mainVars, cur, heap, fileCount,
                    inaccessibleCount, maxDepth, ub, offered, opened, unlistable, lost,
                    progressVars >>

\* A directory is popped and a directory_iterator constructed on it.  A
\* permission error yields an empty range (skip_permission_denied); any other
\* error is caught after the range-for and counted.
WL_Open ==
    /\ pc = "walk" /\ rev = "wl" /\ cur = << >> /\ directoriesToProcess # << >>
    /\ LET n == Len(directoriesToProcess)
           d == directoriesToProcess[n]
       IN  \E relThrows \in { FALSE } \cup (IF MayFail /\ d # Root THEN { TRUE } ELSE { }) :
           \E o \in { "ok" } \cup (IF MayFail /\ ~relThrows THEN { "denied", "error" } ELSE { }) :
              LET currentDepth == CurrentDepth(d, relThrows)
              IN  /\ ~SkipDirectory(depth, currentDepth)
                  /\ directoriesToProcess' = SubSeq(directoriesToProcess, 1, n - 1)
                  /\ maxDepth' = Max(maxDepth, currentDepth)
                  /\ relFailed' = (relFailed \/ relThrows)
                  /\ faults' = IF relThrows \/ o # "ok" THEN faults + 1 ELSE faults
                  /\ calls' = calls \o RelativeCalls(d, relThrows)
                                     \o << Called("open", d, o, 0) >>
                  /\ opened' = opened \cup { d }
                  /\ unlistable' = IF o = "ok" THEN unlistable ELSE unlistable \cup { d }
                  /\ inaccessibleCount' = IF o = "error" THEN inaccessibleCount + 1
                                          ELSE inaccessibleCount
                  /\ LET force == showProgress /\ o = "error"
                     IN  \E t \in Delays(force) : ForcedUpdate(force, t)
                  /\ cur' = IF o = "ok" /\ Entries(d) # << >>
                            THEN << [ dir |-> d, idx |-> 1, depth |-> currentDepth ] >>
                            ELSE << >>
                  /\ pc' = WlPc(cur', directoriesToProcess')
    /\ UNCHANGED << cursor, cfgVars, riVars, outVars, mainVars, heap, fileCount, ub,
                    offered, lost >>

\* is_directory or is_regular_file throws: the entry is counted and skipped.
WL_StatFail ==
    /\ pc = "walk" /\ rev = "wl" /\ cur # << >>
    /\ MayFail
    /\ lost' = lost \cup { CurPath }
    /\ faults' = faults + 1
    /\ inaccessibleCount' = inaccessibleCount + 1
    /\ calls' = Append(calls, Called("status", CurPath, "error", 0))
    /\ cur' = NextEntry(cur)
    /\ pc' = WlPc(cur', directoriesToProcess)
    /\ UNCHANGED << cursor, cfgVars, riVars, outVars, mainVars, directoriesToProcess,
                    relFailed, heap, fileCount, maxDepth, ub, offered, opened,
                    unlistable, progressVars >>

\* A variant of WL_PushDir that adds the subdirectory to the worklist twice.
WL_PushDirTwice ==
    /\ pc = "walk" /\ rev = "wl" /\ cur # << >>
    /\ CurEntry.isDir
    /\ directoriesToProcess' = directoriesToProcess \o << CurPath, CurPath >>
    /\ calls' = Append(calls, Called("status", CurPath, "ok", 0))
    /\ cur' = NextEntry(cur)
    /\ pc' = WlPc(cur', directoriesToProcess')
    /\ UNCHANGED << cursor, cfgVars, riVars, outVars, mainVars, relFailed, heap, fileCount,
                    inaccessibleCount, maxDepth, ub, offered, opened, unlistable,
                    lost, faults, progressVars >>

\* A subdirectory is added to the worklist.
WL_PushDir ==
    /\ pc = "walk" /\ rev = "wl" /\ cur # << >>
    /\ CurEntry.isDir
    /\ directoriesToProcess' = Append(directoriesToProcess, CurPath)
    /\ calls' = Append(calls, Called("status", CurPath, "ok", 0))
    /\ cur' = NextEntry(cur)
    /\ pc' = WlPc(cur', directoriesToProcess')
    /\ UNCHANGED << cursor, cfgVars, riVars, outVars, mainVars, relFailed, heap, fileCount,
                    inaccessibleCount, maxDepth, ub, offered, opened, unlistable,
                    lost, faults, progressVars >>

\* A file the mask rejects.
WL_Pass ==
    /\ pc = "walk" /\ rev = "wl" /\ cur # << >>
    /\ ~CurEntry.isDir /\ ~Matches(rev, CurEntry.name, fileMask)
    /\ calls' = Append(calls, Called("status", CurPath, "ok", 0))
    /\ cur' = NextEntry(cur)
    /\ pc' = WlPc(cur', directoriesToProcess)
    /\ UNCHANGED << cursor, cfgVars, riVars, outVars, mainVars, directoriesToProcess,
                    relFailed, heap, fileCount, inaccessibleCount, maxDepth, ub,
                    offered, opened, unlistable, lost, faults, progressVars >>

\* A variant of WL_SizeFail that leaves inaccessibleCount as it is.
WL_SizeFailUncounted ==
    /\ pc = "walk" /\ rev = "wl" /\ cur # << >>
    /\ ~CurEntry.isDir /\ Matches(rev, CurEntry.name, fileMask)
    /\ MayFail
    /\ fileCount' = fileCount + 1
    /\ lost' = lost \cup { CurPath }
    /\ faults' = faults + 1
    /\ calls' = calls \o << Called("status", CurPath, "ok", 0),
                             Called("size", CurPath, "error", 0) >>
    /\ cur' = NextEntry(cur)
    /\ pc' = WlPc(cur', directoriesToProcess)
    /\ UNCHANGED << cursor, cfgVars, riVars, outVars, mainVars, directoriesToProcess,
                    relFailed, heap, maxDepth, ub, offered, opened, unlistable,
                    inaccessibleCount, progressVars >>

\* A regular file the mask accepts whose file_size throws.
WL_SizeFail ==
    /\ pc = "walk" /\ rev = "wl" /\ cur # << >>
    /\ ~CurEntry.isDir /\ Matches(rev, CurEntry.name, fileMask)
    /\ MayFail
    /\ fileCount' = fileCount + 1
    /\ lost' = lost \cup { CurPath }
    /\ faults' = faults + 1
    /\ inaccessibleCount' = inaccessibleCount + 1
    /\ calls' = calls \o << Called("status", CurPath, "ok", 0),
                             Called("size", CurPath, "error", 0) >>
    /\ cur' = NextEntry(cur)
    /\ pc' = WlPc(cur', directoriesToProcess)
    /\ UNCHANGED << cursor, cfgVars, riVars, outVars, mainVars, directoriesToProcess,
                    relFailed, heap, maxDepth, ub, offered, opened, unlistable,
                    progressVars >>

\* A regular file the mask accepts, of size s: the selection if-chain.
WL_Offer ==
    /\ pc = "walk" /\ rev = "wl" /\ cur # << >>
    /\ ~CurEntry.isDir /\ Matches(rev, CurEntry.name, fileMask)
    /\ ~TopOfEmpty(numFiles, heap)
    /\ \E s \in Sizes :
         LET e == [ path |-> CurPath, size |-> s ]
         IN  /\ offered' = Append(offered, e)
             /\ heap' = Selected(rev, numFiles, heap, e)
             /\ calls' = calls \o << Called("status", CurPath, "ok", 0),
                                      Called("size", CurPath, "ok", s) >>
    /\ fileCount' = fileCount + 1
    /\ \E d \in Delays(showProgress) : PeriodicUpdate(showProgress, d)
    /\ cur' = NextEntry(cur)
    /\ pc' = WlPc(cur', directoriesToProcess)
    /\ UNCHANGED << cursor, cfgVars, riVars, outVars, mainVars, directoriesToProcess,
                    relFailed, inaccessibleCount, maxDepth, ub, opened, unlistable,
                    lost, faults >>

\* The same with numFiles = 0: heap.top() of an empty heap.
WL_OfferUB ==
    /\ pc = "walk" /\ rev = "wl" /\ cur # << >>
    /\ ~CurEntry.isDir /\ Matches(rev, CurEntry.name, fileMask)
    /\ TopOfEmpty(numFiles, heap)
    /\ ub' = TRUE
    /\ fileCount' = fileCount + 1
    /\ \E s \in Sizes, o \in { "crash", "false", "true" } :
         LET e == [ path |-> CurPath, size |-> s ]
         IN  /\ offered' = Append(offered, e)
             /\ heap' = IF o = "true" THEN << e >> ELSE heap
             /\ calls' = calls \o << Called("status", CurPath, "ok", 0),
                                      Called("size", CurPath, "ok", s) >>
             /\ IF o = "crash"
                THEN pc' = "crashed" /\ UNCHANGED << cur, progressVars >>
                ELSE /\ cur' = NextEntry(cur) /\ pc' = WlPc(cur', directoriesToProcess)
                     /\ \E d \in Delays(showProgress) : PeriodicUpdate(showProgress, d)
    /\ UNCHANGED << cursor, cfgVars, riVars, outVars, mainVars, directoriesToProcess,
                    relFailed, inaccessibleCount, maxDepth, opened, unlistable,
                    lost, faults >>

----------------------------------------------------------------------------
\* After the walk: the heap is drained into files, and files is displayed.

\* The heap is drained into files, the vector is reversed ("min") or left as it
\* is, and the display loop writes the result lines.
Display ==
    /\ pc = "drain"
    /\ files' = Drained(rev, DrainLoop(rev, heap, << >>))
    /\ heap' = << >>
    /\ out' = DisplayLoop(numFiles, files', 1, << >>)
    /\ cursor' = ShowCursor(showProgress, cursor)
    /\ summary' = Summary(rev, verbose, inaccessibleCount)
    /\ pc' = "done"
    /\ UNCHANGED << cfgVars, mainVars, it, directoriesToProcess, cur, relFailed,
                    fileCount, inaccessibleCount, maxDepth, ub, offered, opened,
                    unlistable, lost, faults, calls, progressVars >>

\* An interrupt signal arrives during the walk.  No handler is installed, so the
\* process ends there: nothing of its state is left, and the terminal stays as
\* the process last set it.
Interrupt ==
    /\ pc = "walk"
    /\ pc' = "killed"
    /\ heap' = << >> /\ fileCount' = 0 /\ inaccessibleCount' = 0 /\ maxDepth' = 0
    /\ it' = << >> /\ directoriesToProcess' = << >> /\ cur' = << >>
    /\ ub' = FALSE /\ offered' = << >> /\ opened' = { } /\ unlistable' = { }
    /\ lost' = { } /\ faults' = 0 /\ relFailed' = FALSE
    /\ calls' = << >> /\ sinceUpdate' = 0 /\ rendered' = NotRendered
    /\ UNCHANGED << cursor, cfgVars, outVars, mainVars >>

----------------------------------------------------------------------------
\* listLargestFiles, for every argument tuple main can pass.

MainIdle ==
    /\ argv = << >> /\ i = 0 /\ targetPath = "cwd" /\ exitCode = -1
    /\ positionals = << >> /\ lastN = "none" /\ lastD = "none" /\ walked = FALSE
    /\ flags = { } /\ rootStatus = "unchecked"

LocalsInit ==
    /\ heap = << >> /\ fileCount = 0 /\ inaccessibleCount = 0 /\ maxDepth = 0
    /\ it = << >> /\ directoriesToProcess = << >> /\ cur = << >>
    /\ files = << >> /\ out = << >> /\ ub = FALSE
    /\ offered = << >> /\ opened = { } /\ unlistable = { } /\ lost = { }
    /\ faults = 0 /\ relFailed = FALSE
    /\ calls = << >> /\ sinceUpdate = 0 /\ rendered = NotRendered
    /\ earlier = << >>
    /\ cursor = "shown" /\ summary = FALSE

\* The compile-time constants of on.cpp.
DEFAULT_OUTPUT == << "t", "i", "m", "e" >>
PROGRESS_BAR_LENGTH == 50

\* The locals of on's main as they are declared.
OnLocalsInit ==
    /\ argIndex = 1 /\ showHelp = FALSE /\ delayMode = FALSE /\ noClear = FALSE
    /\ outputMode = DEFAULT_OUTPUT /\ progressBarLength = PROGRESS_BAR_LENGTH
    /\ timeArgument = << >> /\ command = << >>
    /\ hh = 0 /\ mm = 0 /\ ss = 0 /\ original_fields = 0
    /\ currentSeconds = -1 /\ timeDifference = 0 /\ waited = "none" /\ executed = 0
    /\ systemResult = "none"

\* on is not running.
OnIdle == onRev = "on" /\ OnLocalsInit

\* No call of matchesFileMask or formatFileSize is under way, and on is not
\* running.
FnIdle ==
    /\ callFilename = << >> /\ callMask = << >> /\ matched = "none"
    /\ callSize = << >> /\ text = "none"
    /\ OnIdle

ListInit == pc = "start" /\ LocalsInit

Init ==
    /\ rev \in { "min", "wl", "cur" }
    /\ numFiles \in { -1 } \cup 0..MaxK
    /\ depth \in -1..MaxDepthArg
    /\ fileMask \in { MaskAll, MaskT }
    /\ verbose = FALSE /\ showProgress = FALSE
    /\ ListInit
    /\ MainIdle /\ FnIdle

Next ==
    \/ RI_Begin \/ RI_Prune \/ RI_Pass \/ RI_StatFail \/ RI_SizeFail
    \/ RI_Offer \/ RI_OfferUB
    \/ WL_Begin \/ WL_SkipDeep \/ WL_Open \/ WL_StatFail \/ WL_PushDir \/ WL_Pass
    \/ WL_SizeFail \/ WL_Offer \/ WL_OfferUB
    \/ Display \/ Interrupt

Spec == Init /\ [][Next]_vars

\* The worklist revision on its own, run to its end: the process is not
\* interrupted, and each statement of listLargestFiles is followed by the next,
\* so a step that can be taken is taken.
WlInit == Init /\ rev = "wl"

WlNext ==
    \/ WL_Begin \/ WL_SkipDeep \/ WL_Open \/ WL_StatFail \/ WL_PushDir \/ WL_Pass
    \/ WL_SizeFail \/ WL_Offer \/ WL_OfferUB
    \/ Display

SpecWl == WlInit /\ [][WlNext]_vars /\ WF_vars(WlNext)

\* Two calls of listLargestFiles on the same tree, the first with showProgress
\* and the second without.  The second call is given the answers the first one
\* was given: a call of the file system on a path ends as it ended before.

\* What a call leaves behind.
Outcome ==
    [ calls |-> calls, offered |-> offered, files |-> files, out |-> out,
      fileCount |-> fileCount, inaccessibleCount |-> inaccessibleCount,
      maxDepth |-> maxDepth ]

\* Every call in cs that was made before got the answer it got before.
SameAnswers(cs, before) ==
    \A j \in 1..Len(cs), k \in 1..Len(before) :
        (cs[j].call = before[k].call /\ cs[j].path = before[k].path)
            => cs[j] = before[k]

\* This step is one the same file system allows.
Replay == earlier = << >> \/ SameAnswers(calls', earlier[1].calls)

\* The first call has returned; the second one starts with its own locals.
Rerun ==
    /\ pc = "done" /\ earlier = << >> /\ showProgress
    /\ earlier' = << Outcome >>
    /\ showProgress' = FALSE
    /\ pc' = "start"
    /\ heap' = << >> /\ fileCount' = 0 /\ inaccessibleCount' = 0 /\ maxDepth' = 0
    /\ it' = << >> /\ directoriesToProcess' = << >> /\ cur' = << >>
    /\ files' = << >> /\ out' = << >> /\ ub' = FALSE
    /\ offered' = << >> /\ opened' = { } /\ unlistable' = { } /\ lost' = { }
    /\ faults' = 0 /\ relFailed' = FALSE
    /\ calls' = << >> /\ sinceUpdate' = 0 /\ rendered' = NotRendered
    /\ cursor' = "shown" /\ summary' = FALSE
    /\ UNCHANGED << rev, numFiles, depth, fileMask, verbose, fnVars, onVars, mainVars >>

PairInit ==
    /\ rev \in { "min", "wl", "cur" }
    /\ numFiles \in { -1, 0, MaxK }
    /\ depth \in { -1, 0 }
    /\ fileMask = MaskT
    /\ verbose = FALSE /\ showProgress = TRUE
    /\ ListInit
    /\ MainIdle /\ FnIdle

PairNext ==
    \/ RI_Begin /\ Replay
    \/ RI_Prune /\ Replay
    \/ RI_Pass /\ Replay
    \/ RI_StatFail /\ Replay
    \/ RI_SizeFail /\ Replay
    \/ RI_Offer /\ Replay
    \/ RI_OfferUB /\ Replay
    \/ WL_Begin /\ Replay
    \/ WL_SkipDeep /\ Replay
    \/ WL_Open /\ Replay
    \/ WL_StatFail /\ Replay
    \/ WL_PushDir /\ Replay
    \/ WL_Pass /\ Replay
    \/ WL_SizeFail /\ Replay
    \/ WL_Offer /\ Replay
    \/ WL_OfferUB /\ Replay
    \/ Display
    \/ Rerun

SpecPair == PairInit /\ [][PairNext]_vars

\* listLargestFiles as largest calls it without -n, -d and a mask, with and
\* without -p and -v.
RunInit ==
    /\ rev \in { "min", "wl", "cur" }
    /\ numFiles = DefaultNumFiles /\ depth = DefaultDepth /\ fileMask = MaskAll
    /\ verbose \in BOOLEAN /\ showProgress \in BOOLEAN
    /\ ListInit
    /\ MainIdle /\ FnIdle

\* The steps such a call can take: with numFiles 50, depth -1 and mask "*" no
\* entry is pruned or passed over for its name and the heap never fills.
RunNext ==
    \/ RI_Begin \/ RI_Pass \/ RI_StatFail \/ RI_SizeFail \/ RI_Offer
    \/ WL_Begin \/ WL_Open \/ WL_StatFail \/ WL_PushDir \/ WL_SizeFail \/ WL_Offer
    \/ Display \/ Interrupt

SpecRun == RunInit /\ [][RunNext]_vars

----------------------------------------------------------------------------
\* main of the current command line.  argv holds the arguments after argv[0], so
\* argc is Len(argv) + 1 and i is the C++ loop index.

DigitChars == << "0", "1", "2", "3", "4", "5", "6", "7", "8", "9" >>
IsDigit(c) == \E k \in 1..Len(DigitChars) : DigitChars[k] = c
DigitVal(c) == (CHOOSE k \in 1..Len(DigitChars) : DigitChars[k] = c) - 1

\* The range of int.
IntMax == (2^30 - 1) + 2^30
IntMin == -IntMax - 1

RECURSIVE SkipSpace(_)
SkipSpace(s) == IF s # << >> /\ Head(s) = " " THEN SkipSpace(Tail(s)) ELSE s

RECURSIVE DigitRun(_)
\* The longest prefix of s made of digits.
DigitRun(s) ==
    IF s # << >> /\ IsDigit(Head(s)) THEN << Head(s) >> \o DigitRun(Tail(s)) ELSE << >>

RECURSIVE NegValue(_, _)
\* Minus the number a digit string denotes, accumulated left to right; 1 when it
\* lies below the range of int.
NegValue(ds, acc) ==
    IF ds = << >> THEN acc
    ELSE LET d == DigitVal(Head(ds))
             limit == IntMin \div 10 + 1
         IN  IF acc > limit \/ (acc = limit /\ d <= 10 * limit - IntMin)
             THEN NegValue(Tail(ds), 10 * acc - d)
             ELSE 1

\* std::stoi: leading whitespace, an optional sign, then digits; what follows the
\* digits is ignored.  No digit: std::invalid_argument; a value outside int:
\* std::out_of_range.
stoi(str) ==
    LET s == SkipSpace(str)
        signed == s # << >> /\ Head(s) \in { "-", "+" }
        minus == signed /\ Head(s) = "-"
        ds == DigitRun(IF signed THEN Tail(s) ELSE s)
        neg == NegValue(ds, 0)
    IN  IF ds = << >> THEN [ ok |-> FALSE, what |-> "invalid_argument" ]
        ELSE IF neg = 1 \/ (~minus /\ neg = IntMin)
        THEN [ ok |-> FALSE, what |-> "out_of_range" ]
        ELSE [ ok |-> TRUE, val |-> IF minus THEN neg ELSE -neg ]

OptN == << "-", "n" >>
OptD == << "-", "d" >>
OptH == << "-", "h" >>
OptV == << "-", "v" >>
FlagArgs == { << "-", "b" >>, << "-", "r" >>, << "-", "p" >>, OptV,
              << "-", "-", "v", "e", "r", "b", "o", "s", "e" >> }
\* The switch an argument sets.
FlagOf(arg) == IF Len(arg) = 2 THEN arg[2] ELSE "v"

\* The file system main sees: d is a directory, f a regular file, nothing else
\* exists.
ArgDir == << "d" >>
ArgFile == << "f" >>
ArgMissing == << "q" >>
ExistingDirs == { ArgDir }

\* The arguments the command line is made of.
Tokens == { OptN, OptD, OptH, OptV,
            << "-", "1" >>, << "0" >>, << "2" >>, << "-", "7" >>, << "x" >>,
            << "9", "9", "9", "9", "9", "9", "9", "9", "9", "9" >>,
            ArgDir, ArgFile, ArgMissing, MaskT }

argc == Len(argv) + 1
Arg == argv[i]

\* if (numFiles < -1) numFiles = 50;
ResetNumFiles(n) == IF n < -1 THEN DefaultNumFiles ELSE n
\* if (depth < -1) depth = -1;
ResetDepth(d) == IF d < -1 THEN DefaultDepth ELSE d

callVars == << heap, fileCount, inaccessibleCount, maxDepth, it,
               directoriesToProcess, cur, files, out, ub, offered, opened,
               unlistable, lost, faults, relFailed, calls, progressVars, verbose,
               showProgress, cursor, summary, idleVars >>

\* arg == "-n": the next argument, if there is one, is converted; an exception
\* of stoi leaves the try block before the range check.
ArgNumFiles ==
    /\ pc = "parse" /\ i < argc /\ Arg = OptN
    /\ IF i + 1 < argc
       THEN LET r == stoi(argv[i + 1])
            IN  /\ numFiles' = IF r.ok THEN ResetNumFiles(r.val) ELSE numFiles
                /\ lastN' = IF r.ok THEN "ok" ELSE "bad"
       ELSE /\ numFiles' = ResetNumFiles(numFiles)
            /\ lastN' = "missing"
    /\ i' = i + 2
    /\ UNCHANGED << rev, depth, fileMask, pc, callVars, argv, targetPath, exitCode,
                    positionals, lastD, walked, flags, rootStatus >>

\* arg == "-d"
ArgDepth ==
    /\ pc = "parse" /\ i < argc /\ Arg = OptD
    /\ IF i + 1 < argc
       THEN LET r == stoi(argv[i + 1])
            IN  /\ depth' = IF r.ok THEN ResetDepth(r.val) ELSE depth
                /\ lastD' = IF r.ok THEN "ok" ELSE "bad"
       ELSE /\ depth' = ResetDepth(depth)
            /\ lastD' = "missing"
    /\ i' = i + 2
    /\ UNCHANGED << rev, numFiles, fileMask, pc, callVars, argv, targetPath,
                    exitCode, positionals, lastN, walked, flags, rootStatus >>

\* -b, -r, -p, -v, --verbose
ArgFlag ==
    /\ pc = "parse" /\ i < argc /\ Arg \in FlagArgs
    /\ flags' = flags \cup { FlagOf(Arg) }
    /\ i' = i + 1
    /\ UNCHANGED << cfgVars, pc, callVars, argv, targetPath, exitCode, positionals,
                    lastN, lastD, walked, rootStatus >>

\* -h: the usage text, return 0.
ArgHelp ==
    /\ pc = "parse" /\ i < argc /\ Arg = OptH
    /\ exitCode' = 0
    /\ pc' = "exit"
    /\ UNCHANGED << cfgVars, callVars, argv, i, targetPath, positionals, lastN,
                    lastD, walked, flags, rootStatus >>

\* Any other argument: an existing directory becomes targetPath, anything else
\* becomes fileMask.
ArgPositional ==
    /\ pc = "parse" /\ i < argc
    /\ Arg \notin { OptN, OptD, OptH } \cup FlagArgs
    /\ IF Arg \in ExistingDirs
       THEN targetPath' = Arg /\ UNCHANGED fileMask
       ELSE fileMask' = Arg /\ UNCHANGED targetPath
    /\ positionals' = Append(positionals, Arg)
    /\ i' = i + 1
    /\ UNCHANGED << rev, numFiles, depth, pc, callVars, argv, exitCode, lastN,
                    lastD, walked, flags, rootStatus >>

\* The argument loop ends.
ArgsDone ==
    /\ pc = "parse" /\ ~(i < argc)
    /\ pc' = "validate"
    /\ UNCHANGED << cfgVars, callVars, mainVars >>

\* Validation of targetPath.  What targetPath is by now is the file system's
\* answer: the working directory or the directory argument may have been removed
\* or replaced since it was looked at.
ExitMissing ==
    /\ pc = "validate"
    /\ rootStatus' = "missing"
    /\ exitCode' = 1
    /\ pc' = "exit"
    /\ UNCHANGED << cfgVars, callVars, argv, i, targetPath, positionals, lastN,
                    lastD, walked, flags >>

ExitNotDirectory ==
    /\ pc = "validate"
    /\ rootStatus' = "notdir"
    /\ exitCode' = 1
    /\ pc' = "exit"
    /\ UNCHANGED << cfgVars, callVars, argv, i, targetPath, positionals, lastN,
                    lastD, walked, flags >>

\* listLargestFiles(targetPath, fileMask, depth, numFiles, ...); return 0.  The
\* body of listLargestFiles is what Spec describes.
ListAndReturn ==
    /\ pc = "validate"
    /\ rootStatus' = "dir"
    /\ walked' = TRUE
    /\ exitCode' = 0
    /\ pc' = "exit"
    /\ UNCHANGED << cfgVars, callVars, argv, i, targetPath, positionals, lastN,
                    lastD, flags >>

MainInit ==
    /\ rev = "cur"
    /\ numFiles = DefaultNumFiles /\ depth = DefaultDepth /\ fileMask = MaskAll
    /\ verbose = FALSE /\ showProgress = FALSE
    /\ pc = "parse" /\ LocalsInit /\ FnIdle
    /\ argv \in UNION { [ 1..n -> Tokens ] : n \in 0..MaxArgs }
    /\ i = 1 /\ targetPath = "cwd" /\ exitCode = -1
    /\ positionals = << >> /\ lastN = "none" /\ lastD = "none" /\ walked = FALSE
    /\ flags = { } /\ rootStatus = "unchecked"

MainNext ==
    \/ ArgNumFiles \/ ArgDepth \/ ArgFlag \/ ArgHelp \/ ArgPositional \/ ArgsDone
    \/ ExitMissing \/ ExitNotDirectory \/ ListAndReturn

SpecMain == MainInit /\ [][MainNext]_vars

----------------------------------------------------------------------------
\* matchesFileMask called on its own, for every filename and mask over a small
\* alphabet.

\* largest is not running.
LargestIdle ==
    /\ rev = "cur"
    /\ numFiles = DefaultNumFiles /\ depth = DefaultDepth /\ fileMask = MaskAll
    /\ verbose = FALSE /\ showProgress = FALSE
    /\ LocalsInit /\ MainIdle

largestVars == << listVars, mainVars, verbose, showProgress, cursor, summary,
                  earlier >>

Strings(chars, n) == UNION { [ 1..k -> chars ] : k \in 0..n }

NameChars == { "a", "A", ".", "+", "1" }
MaskChars == { "a", ".", "*", "?", "+", "1" }

MatchInit ==
    /\ pc = "call"
    /\ callFilename \in Strings(NameChars, MaxNameLen)
    /\ callMask \in Strings(MaskChars, MaxMaskLen)
    /\ matched = "none" /\ callSize = << >> /\ text = "none"
    /\ LargestIdle /\ OnIdle

CallMatch ==
    /\ pc = "call" /\ matched = "none"
    /\ matched' = matchesFileMask(callFilename, callMask)
    /\ pc' = "returned"
    /\ UNCHANGED << largestVars, onVars, callFilename, callMask, callSize, text >>

SpecMatch == MatchInit /\ [][CallMatch]_vars

----------------------------------------------------------------------------
\* formatFileSize with integer arithmetic: the sort-based revisions "sort1" and
\* "sort2" of largest.cpp and revision "min".  A size is written in base 1000,
\* most significant digit first, so that size / 1000 drops the last digit and
\* size >= 1000 says that there are two digits or more.

\* uintmax_t has 64 bits: 18,446,744,073,709,551,615 is its largest value.
UintmaxDigits == 7
UintmaxMax == << 18, 446, 744, 73, 709, 551, 615 >>

RECURSIVE LexLessEq(_, _)
\* a <= b for two numbers of the same number of digits.
LexLessEq(a, b) ==
    IF a = << >> THEN TRUE
    ELSE IF Head(a) # Head(b) THEN Head(a) < Head(b)
    ELSE LexLessEq(Tail(a), Tail(b))

\* The values of uintmax_t among the numbers whose digits are 0, 1, 18 or 999.
DigitValues == { 0, 1, 18, 999 }
SizeValues ==
    { v \in UNION { [ 1..n -> DigitValues ] : n \in 1..UintmaxDigits } :
        /\ Len(v) > 1 => v[1] # 0
        /\ Len(v) = UintmaxDigits => LexLessEq(v, UintmaxMax) }

\* const char* suffixes[]
Suffixes(r) ==
    IF r = "sort1"
    THEN << " KB", " MB", " GB", " TB", " PB", " EB", " ZB", " YB" >>
    ELSE << " BY", " KB", " MB", " GB", " TB", " PB", " EB", " ZB", " YB" >>

RECURSIVE ScaleLoop(_, _, _)
\* while (size >= 1000 && suffixIndex < sizeof(suffixes) / sizeof(suffixes[0]))
\*     { size /= 1000; suffixIndex++; }
ScaleLoop(r, sz, suffixIndex) ==
    IF Len(sz) >= 2 /\ suffixIndex < Len(Suffixes(r))
    THEN ScaleLoop(r, SubSeq(sz, 1, Len(sz) - 1), suffixIndex + 1)
    ELSE [ size |-> sz, suffixIndex |-> suffixIndex ]

\* Number of decimal digits of a number below 1000.
Width(n) == IF n < 10 THEN 1 ELSE IF n < 100 THEN 2 ELSE 3

\* std::setw(3) << std::right: blanks in front of a number narrower than 3.
Padding(sz) == IF Len(sz) = 1 THEN 3 - Width(sz[1]) ELSE 0

\* The text returned: blanks, the number, the unit.  suffixes[suffixIndex]
\* beyond the array is undefined behaviour, recorded as the unit "out of bounds".
formatFileSize(r, sz) ==
    IF Len(sz) = 1
    THEN [ pad |-> Padding(sz), value |-> sz, unit |-> " bytes" ]
    ELSE LET l == ScaleLoop(r, sz, 0)
         IN  [ pad |-> Padding(l.size), value |-> l.size,
               unit |-> IF l.suffixIndex < Len(Suffixes(r))
                        THEN Suffixes(r)[l.suffixIndex + 1]
                        ELSE "out of bounds" ]

FormatInit ==
    /\ pc = "call"
    /\ rev \in { "sort1", "sort2", "min" }
    /\ callSize \in SizeValues
    /\ text = "none" /\ callFilename = << >> /\ callMask = << >> /\ matched = "none"
    /\ numFiles = DefaultNumFiles /\ depth = DefaultDepth /\ fileMask = MaskAll
    /\ verbose = FALSE /\ showProgress = FALSE
    /\ LocalsInit /\ MainIdle /\ OnIdle

CallFormat ==
    /\ pc = "call" /\ text = "none"
    /\ text' = formatFileSize(rev, callSize)
    /\ pc' = "returned"
    /\ UNCHANGED << largestVars, onVars, callFilename, callMask, matched, callSize >>

SpecFormat == FormatInit /\ [][CallFormat]_vars

----------------------------------------------------------------------------
\* on: wait until a time of day or for a duration, then run a command.  The
\* current revision is src/on/on.cpp ("on"); src/at/on.cpp ("at") is the first
\* one.  argv holds the arguments after the program name, so that argc is
\* Len(argv) + 1 and argv[k] is the code's argv[k].

\* sscanf's %d: leading whitespace, an optional sign, then digits.  ok says
\* that a number was read, rest is what follows it; a number outside int is
\* undefined behaviour (defined is FALSE).
ScanInt(s) ==
    LET t == SkipSpace(s)
        signed == t # << >> /\ Head(t) \in { "-", "+" }
        minus == signed /\ Head(t) = "-"
        body == IF signed THEN Tail(t) ELSE t
        ds == DigitRun(body)
        neg == NegValue(ds, 0)
        inRange == neg # 1 /\ (minus \/ neg # IntMin)
    IN  [ ok |-> ds # << >>,
          defined |-> inRange,
          val |-> IF ~inRange THEN 0 ELSE IF minus THEN neg ELSE -neg,
          rest |-> SubSeq(body, Len(ds) + 1, Len(body)) ]

RECURSIVE ScanFields(_, _)
\* sscanf with n conversions %d separated by ':': the conversions done before
\* the input stops matching.
ScanFields(s, n) ==
    LET a == ScanInt(s)
    IN  IF n = 0 \/ ~a.ok THEN << >>
        ELSE << a >> \o (IF a.rest # << >> /\ Head(a.rest) = ":"
                         THEN ScanFields(Tail(a.rest), n - 1)
                         ELSE << >>)

\* The product and the sum of two int, as two's complement hardware computes
\* them; a result outside int is undefined behaviour.  c is 60 or 3600, which
\* do not divide 2^31.
MulOverflows(m, c) == m > IntMax \div c \/ m <= IntMin \div c
WrapMul(m, c) ==
    LET hi == m \div 2^16
        lo == m % 2^16
        high == (hi * c + (lo * c) \div 2^16) % 2^16
        low == (lo * c) % 2^16
    IN  IF high >= 2^15 THEN (high - 2^16) * 2^16 + low ELSE high * 2^16 + low
AddOverflows(a, b) == (b > 0 /\ a > IntMax - b) \/ (b < 0 /\ a < IntMin - b)
WrapAdd(a, b) ==
    IF b > 0 /\ a > IntMax - b THEN (a + IntMin) + (b + IntMin)
    ELSE IF b < 0 /\ a < IntMin - b THEN (a - IntMin) + (b - IntMin)
    ELSE a + b

\* on.cpp 139-158: the fields read become hours, minutes and seconds.
Normalised(delay, fields, h, m, s) ==
    IF fields = 1
    THEN IF delay THEN [ hh |-> 0, mm |-> 0, ss |-> h ]
                  ELSE [ hh |-> h, mm |-> 0, ss |-> 0 ]
    ELSE IF fields = 2
    THEN IF delay THEN [ hh |-> 0, mm |-> h, ss |-> m ]
                  ELSE [ hh |-> h, mm |-> m, ss |-> 0 ]
    ELSE [ hh |-> h, mm |-> m, ss |-> s ]

\* on.cpp 161-184: no negative component; clock time within 23:59:59; in delay
\* mode only the leading field may exceed 59.
ValidValues(delay, fields, t) ==
    /\ ~(t.hh < 0 \/ t.mm < 0 \/ t.ss < 0)
    /\ ~delay => ~(t.hh > 23 \/ t.mm > 59 \/ t.ss > 59)
    /\ (delay /\ fields = 2) => ~(t.ss > 59)
    /\ (delay /\ fields = 3) => ~(t.mm > 59 \/ t.ss > 59)

\* on.cpp 187: static_cast<long long>(hh) * 3600 + mm * 60 + ss.  mm * 60 is a
\* product of two int; the sums are long long.
TargetSeconds(t) == t.hh * 3600 + WrapMul(t.mm, 60) + t.ss
TargetOverflows(t) == MulOverflows(t.mm, 60)

\* src/at/on.cpp 41: hh * 3600 + mm * 60 + ss, all in int.
AtTargetSeconds(h, m, s) ==
    WrapAdd(WrapAdd(WrapMul(h, 3600), WrapMul(m, 60)), s)
AtTargetOverflows(h, m, s) ==
    \/ MulOverflows(h, 3600) \/ MulOverflows(m, 60)
    \/ AddOverflows(WrapMul(h, 3600), WrapMul(m, 60))
    \/ AddOverflows(WrapAdd(WrapMul(h, 3600), WrapMul(m, 60)), s)

\* A variant of UntilNext that never moves the target to the next day.
UntilNextSameDay(target, now) == target - now

\* on.cpp 200-206: the seconds from the time of day now to the next time of
\* day target.
UntilNext(target, now) ==
    IF target - now < 0 THEN target - now + 24 * 3600 ELSE target - now

\* on.cpp 209-214.
ModeTime == << "t", "i", "m", "e" >>
ModeProgress == << "p", "r", "o", "g", "r", "e", "s", "s" >>
ModeBoth == << "b", "o", "t", "h" >>
ModeNone == << "n", "o", "n", "e" >>
OutputModes == { ModeTime, ModeProgress, ModeBoth, ModeNone,
                 << "t" >>, << "p" >>, << "b" >>, << "n" >> }
showTimer ==
    IF outputMode = << >> THEN DEFAULT_OUTPUT \in { ModeTime, ModeBoth }
    ELSE outputMode \in { ModeTime, << "t" >>, ModeBoth, << "b" >> }
showBar ==
    IF outputMode = << >> THEN DEFAULT_OUTPUT \in { ModeProgress, ModeBoth }
    ELSE outputMode \in { ModeProgress, << "p" >>, ModeBoth, << "b" >> }

RECURSIVE JoinArgs(_)
\* on.cpp 123-129: the remaining arguments joined by one space.
JoinArgs(args) ==
    IF args = << >> THEN << >>
    ELSE IF Len(args) = 1 THEN args[1]
    ELSE args[1] \o << " " >> \o JoinArgs(Tail(args))

OptHelp == { << "-", "h" >>, << "-", "-", "h", "e", "l", "p" >> }
OptDelay == { << "-", "d" >>, << "-", "-", "d", "e", "l", "a", "y" >> }
OptNoClear == { << "-", "c" >>, << "-", "-", "n", "o", "-", "c", "l", "e", "a", "r" >> }
OptOutput == { << "-", "o" >>, << "-", "-", "o", "u", "t", "p", "u", "t" >> }
OptLength == { << "-", "l" >>, << "-", "-", "l", "e", "n", "g", "t", "h" >> }

\* Everything on does not touch.
onFrame == << argv, rev, numFiles, depth, fileMask, heap, fileCount,
              inaccessibleCount, maxDepth, it, directoriesToProcess, cur, files,
              out, offered, opened, unlistable, lost, faults, relFailed, calls,
              progressVars, earlier, i,
              targetPath, positionals, lastN, lastD, walked, flags, rootStatus,
              verbose, showProgress, summary, fnVars, onRev, executed,
              systemResult >>
optVars == << showHelp, delayMode, noClear, outputMode, progressBarLength >>
timeVars == << hh, mm, ss, original_fields, currentSeconds, timeDifference >>

\* while (argIndex < argc && argv[argIndex][0] == '-')
AtOption ==
    /\ argIndex <= Len(argv)
    /\ argv[argIndex] # << >> /\ Head(argv[argIndex]) = "-"

\* return code; from main.
Return(code) == pc' = "exited" /\ exitCode' = code

\* -h, -d, -c
OnOptFlag ==
    /\ onRev = "on" /\ pc = "on_opts" /\ AtOption
    /\ argv[argIndex] \in OptHelp \cup OptDelay \cup OptNoClear
    /\ showHelp' = (showHelp \/ argv[argIndex] \in OptHelp)
    /\ delayMode' = (delayMode \/ argv[argIndex] \in OptDelay)
    /\ noClear' = (noClear \/ argv[argIndex] \in OptNoClear)
    /\ argIndex' = argIndex + 1
    /\ UNCHANGED << pc, exitCode, outputMode, progressBarLength, timeArgument,
                    command, timeVars, waited, cursor, ub, onFrame >>

\* -o MODE
OnOptOutput ==
    /\ onRev = "on" /\ pc = "on_opts" /\ AtOption
    /\ argv[argIndex] \in OptOutput
    /\ IF argIndex + 1 > Len(argv)
       THEN /\ argIndex' = argIndex + 1
            /\ Return(1)
            /\ UNCHANGED outputMode
       ELSE /\ outputMode' = argv[argIndex + 1]
            /\ IF argv[argIndex + 1] \notin OutputModes
               THEN argIndex' = argIndex + 1 /\ Return(1)
               ELSE argIndex' = argIndex + 2 /\ UNCHANGED << pc, exitCode >>
    /\ UNCHANGED << showHelp, delayMode, noClear, progressBarLength, timeArgument,
                    command, timeVars, waited, cursor, ub, onFrame >>

\* -l NUM
OnOptLength ==
    /\ onRev = "on" /\ pc = "on_opts" /\ AtOption
    /\ argv[argIndex] \in OptLength
    /\ IF argIndex + 1 > Len(argv)
       THEN /\ argIndex' = argIndex + 1
            /\ Return(1)
            /\ UNCHANGED progressBarLength
       ELSE LET n == stoi(argv[argIndex + 1])
            IN  IF ~n.ok
                THEN /\ argIndex' = argIndex + 1
                     /\ Return(1)
                     /\ UNCHANGED progressBarLength
                ELSE /\ progressBarLength' = n.val
                     /\ IF n.val < 5 \/ n.val > 300
                        THEN argIndex' = argIndex + 1 /\ Return(1)
                        ELSE argIndex' = argIndex + 2 /\ UNCHANGED << pc, exitCode >>
    /\ UNCHANGED << showHelp, delayMode, noClear, outputMode, timeArgument,
                    command, timeVars, waited, cursor, ub, onFrame >>

\* Unknown option.
OnOptUnknown ==
    /\ onRev = "on" /\ pc = "on_opts" /\ AtOption
    /\ argv[argIndex] \notin OptHelp \cup OptDelay \cup OptNoClear \cup OptOutput
                                \cup OptLength
    /\ Return(1)
    /\ UNCHANGED << argIndex, optVars, timeArgument, command, timeVars, waited,
                    cursor, ub, onFrame >>

\* The option loop ends.
OnOptsDone ==
    /\ onRev = "on" /\ pc = "on_opts" /\ ~AtOption
    /\ pc' = "on_args"
    /\ UNCHANGED << argIndex, exitCode, optVars, timeArgument, command, timeVars,
                    waited, cursor, ub, onFrame >>

\* if (showHelp) { ... return 0; }
OnHelp ==
    /\ pc = "on_args" /\ showHelp
    /\ Return(0)
    /\ UNCHANGED << argIndex, optVars, timeArgument, command, timeVars, waited,
                    cursor, ub, onFrame >>

\* if (argIndex >= argc) { ... return 1; }
OnUsage ==
    /\ pc = "on_args" /\ ~showHelp /\ argIndex > Len(argv)
    /\ Return(1)
    /\ UNCHANGED << argIndex, optVars, timeArgument, command, timeVars, waited,
                    cursor, ub, onFrame >>

\* The time argument and the command are taken from argv.
OnExtract ==
    /\ pc = "on_args" /\ ~showHelp /\ argIndex <= Len(argv)
    /\ timeArgument' = argv[argIndex]
    /\ argIndex' = argIndex + 1
    /\ command' = JoinArgs(SubSeq(argv, argIndex + 1, Len(argv)))
    /\ pc' = "on_time"
    /\ UNCHANGED << exitCode, optVars, timeVars, waited, cursor, ub, onFrame >>

\* The values sscanf stores for what it read; a number outside int is
\* undefined behaviour.
Stored(a) == IF a.defined THEN { a.val } ELSE { IntMin, -1, IntMax }
ScanUndefined(scanned) == \E k \in 1..Len(scanned) : ~scanned[k].defined

\* if (fields < 1) { ... return 1; }
OnBadFormat ==
    /\ pc = "on_time" /\ ScanFields(timeArgument, 3) = << >>
    /\ Return(1)
    /\ UNCHANGED << argIndex, optVars, timeArgument, command, timeVars, waited,
                    cursor, ub, onFrame >>

\* The time read, after on.cpp 139-158, for each value sscanf can have stored.
TimesRead ==
    LET scanned == ScanFields(timeArgument, 3)
        fields == Len(scanned)
    IN  { Normalised(delayMode, fields, h, m, s) :
            h \in Stored(scanned[1]),
            m \in IF fields >= 2 THEN Stored(scanned[2]) ELSE { 0 },
            s \in IF fields >= 3 THEN Stored(scanned[3]) ELSE { 0 } }

\* A component is negative or out of bounds: return 1.
OnInvalidValues ==
    /\ pc = "on_time" /\ ScanFields(timeArgument, 3) # << >>
    /\ \E t \in TimesRead :
        /\ ~ValidValues(delayMode, Len(ScanFields(timeArgument, 3)), t)
        /\ hh' = t.hh /\ mm' = t.mm /\ ss' = t.ss
    /\ original_fields' = Len(ScanFields(timeArgument, 3))
    /\ ub' = (ub \/ ScanUndefined(ScanFields(timeArgument, 3)))
    /\ Return(1)
    /\ UNCHANGED << argIndex, optVars, timeArgument, command, currentSeconds,
                    timeDifference, waited, cursor, onFrame >>

\* Delay mode: the wait is the duration; a duration that is not positive is
\* refused.  An overflow of mm * 60 is undefined behaviour: the product wraps
\* or the program traps.
OnDelay ==
    /\ pc = "on_time" /\ ScanFields(timeArgument, 3) # << >> /\ delayMode
    /\ \E t \in TimesRead :
        /\ ValidValues(delayMode, Len(ScanFields(timeArgument, 3)), t)
        /\ hh' = t.hh /\ mm' = t.mm /\ ss' = t.ss
        /\ ub' = (ub \/ ScanUndefined(ScanFields(timeArgument, 3))
                     \/ TargetOverflows(t))
        /\ \E outcome \in IF TargetOverflows(t) THEN { "wrap", "trap" }
                                                ELSE { "wrap" } :
            IF outcome = "trap"
            THEN pc' = "killed" /\ UNCHANGED << exitCode, timeDifference, waited >>
            ELSE /\ timeDifference' = TargetSeconds(t)
                 /\ IF TargetSeconds(t) <= 0
                    THEN Return(1) /\ UNCHANGED waited
                    ELSE pc' = "on_wait" /\ waited' = "none" /\ UNCHANGED exitCode
    /\ original_fields' = Len(ScanFields(timeArgument, 3))
    /\ UNCHANGED << argIndex, optVars, timeArgument, command, currentSeconds,
                    cursor, onFrame >>

\* The readings of the local time of day, in seconds: midnight, 12:30:00,
\* 12:30:01, 23:59:59 and 23:59:60 (tm_sec counts a leap second).
ClockValues == { 0, 45000, 45001, 86399, 86400 }

\* Clock mode: the wait lasts until the next occurrence of the time of day.
OnClock ==
    /\ pc = "on_time" /\ ScanFields(timeArgument, 3) # << >> /\ ~delayMode
    /\ \E t \in TimesRead, now \in ClockValues :
        /\ ValidValues(delayMode, Len(ScanFields(timeArgument, 3)), t)
        /\ hh' = t.hh /\ mm' = t.mm /\ ss' = t.ss
        /\ currentSeconds' = now
        /\ timeDifference' = UntilNext(TargetSeconds(t), now)
        /\ waited' = IF UntilNext(TargetSeconds(t), now) <= 0 THEN "all" ELSE "none"
    /\ ub' = (ub \/ ScanUndefined(ScanFields(timeArgument, 3)))
    /\ original_fields' = Len(ScanFields(timeArgument, 3))
    /\ pc' = "on_wait"
    /\ UNCHANGED << argIndex, exitCode, optVars, timeArgument, command, cursor,
                    onFrame >>

\* on.cpp 217-223 and 260-262: with a timer or a bar the wait is a loop, which
\* hides the cursor unless -c was given; without output it is one sleep_for.
OnWaitBegin ==
    /\ onRev = "on" /\ pc = "on_wait"
    /\ IF showTimer \/ showBar
       THEN /\ pc' = "on_loop"
            /\ cursor' = IF noClear THEN cursor ELSE "hidden"
       ELSE pc' = "on_sleep" /\ UNCHANGED cursor
    /\ UNCHANGED << argIndex, exitCode, optVars, timeArgument, command, timeVars,
                    waited, ub, onFrame >>

\* One round of while (clock::now() < end): a line is drawn and the program
\* sleeps, after which the end has come or not.
OnTick ==
    /\ pc = "on_loop" /\ waited # "all"
    /\ \E w \in { "part", "all" } : waited' = w
    /\ UNCHANGED << pc, argIndex, exitCode, optVars, timeArgument, command,
                    timeVars, cursor, ub, onFrame >>

\* A variant of OnLoopEnd that leaves the loop whatever the clock says.
OnLoopEndEarly ==
    /\ pc = "on_loop"
    /\ cursor' = IF noClear THEN cursor ELSE "shown"
    /\ pc' = "on_run"
    /\ UNCHANGED << argIndex, exitCode, optVars, timeArgument, command, timeVars,
                    waited, ub, onFrame >>

\* clock::now() < end is false: the loop ends, and the cursor is shown again
\* if it was hidden.
OnLoopEnd ==
    /\ pc = "on_loop" /\ waited = "all"
    /\ cursor' = IF noClear THEN cursor ELSE "shown"
    /\ pc' = "on_run"
    /\ UNCHANGED << argIndex, exitCode, optVars, timeArgument, command, timeVars,
                    waited, ub, onFrame >>

\* std::this_thread::sleep_for(std::chrono::seconds(timeDifference));
OnSleep ==
    /\ pc = "on_sleep"
    /\ waited' = "all"
    /\ pc' = "on_run"
    /\ UNCHANGED << argIndex, exitCode, optVars, timeArgument, command, timeVars,
                    cursor, ub, onFrame >>

\* What std::system can return for the commands of the model.
SystemResults == { 0, 3 }

\* if (!command.empty()) return std::system(command.c_str());
OnRun ==
    /\ onRev = "on" /\ pc = "on_run" /\ command # << >>
    /\ \E r \in SystemResults : systemResult' = r /\ Return(r)
    /\ executed' = executed + 1
    /\ UNCHANGED << argv, rev, numFiles, depth, fileMask, heap, fileCount,
                    inaccessibleCount, maxDepth, it, directoriesToProcess, cur,
                    files, out, offered, opened, unlistable, lost, faults,
                    relFailed, calls, progressVars, earlier, i, targetPath,
                    positionals, lastN, lastD, walked,
                    flags, rootStatus, verbose, showProgress, summary, fnVars,
                    onRev >>
    /\ UNCHANGED << argIndex, optVars, timeArgument, command, timeVars, waited,
                    cursor, ub >>

\* return 0;
OnReturn ==
    /\ onRev = "on" /\ pc = "on_run" /\ command = << >>
    /\ Return(0)
    /\ UNCHANGED << argIndex, optVars, timeArgument, command, timeVars, waited,
                    cursor, ub, onFrame >>

\* src/at/on.cpp 46-49: if (timeDifference < 0) timeDifference += 24 * 3600;
UntilNextInt(diff) == IF diff < 0 THEN diff + 24 * 3600 ELSE diff

\* What an uninitialised int can hold when it is read.
Garbage == { -1, 0, 30, 61 }

\* src/at/on.cpp 18-21: if (argc != 3) { ... return 1; }
AtUsage ==
    /\ onRev = "at" /\ pc = "on_opts" /\ Len(argv) # 2
    /\ Return(1)
    /\ UNCHANGED << argIndex, optVars, timeArgument, command, timeVars, waited,
                    cursor, ub, onFrame >>

\* src/at/on.cpp 24-29: the two arguments and the current time.
AtExtract ==
    /\ onRev = "at" /\ pc = "on_opts" /\ Len(argv) = 2
    /\ timeArgument' = argv[1] /\ command' = argv[2]
    /\ \E now \in ClockValues : currentSeconds' = now
    /\ pc' = "at_time"
    /\ UNCHANGED << argIndex, exitCode, optVars, hh, mm, ss, original_fields,
                    timeDifference, waited, cursor, ub, onFrame >>

\* src/at/on.cpp 33-38: neither sscanf read enough.
AtBadFormat ==
    /\ pc = "at_time"
    /\ Len(ScanFields(timeArgument, 3)) < 2 /\ Len(ScanFields(timeArgument, 2)) < 1
    /\ Return(1)
    /\ UNCHANGED << argIndex, optVars, timeArgument, command, timeVars, waited,
                    cursor, ub, onFrame >>

\* src/at/on.cpp 33-49: hh, mm and ss are not initialised, so a component
\* sscanf did not store is read as garbage; the arithmetic is in int.
AtCompute ==
    /\ pc = "at_time"
    /\ LET first == ScanFields(timeArgument, 3)
           scanned == IF Len(first) >= 2 THEN first ELSE ScanFields(timeArgument, 2)
       IN  /\ scanned # << >>
           /\ \E h \in Stored(scanned[1]),
                 m \in IF Len(scanned) >= 2 THEN Stored(scanned[2]) ELSE Garbage,
                 s \in IF Len(scanned) >= 3 THEN Stored(scanned[3]) ELSE Garbage :
               LET target == AtTargetSeconds(h, m, s)
                   diff == WrapAdd(target, -currentSeconds)
                   undefined == \/ Len(scanned) < 3 \/ ScanUndefined(scanned)
                                \/ AtTargetOverflows(h, m, s)
                                \/ AddOverflows(target, -currentSeconds)
               IN  /\ hh' = h /\ mm' = m /\ ss' = s
                   /\ ub' = (ub \/ undefined)
                   /\ \E outcome \in IF undefined THEN { "wrap", "trap" }
                                                  ELSE { "wrap" } :
                       IF outcome = "trap"
                       THEN pc' = "killed" /\ UNCHANGED << timeDifference, waited >>
                       ELSE /\ timeDifference' = UntilNextInt(diff)
                            /\ waited' = IF UntilNextInt(diff) <= 0 THEN "all"
                                         ELSE "none"
                            /\ pc' = "on_sleep"
    /\ UNCHANGED << argIndex, exitCode, optVars, timeArgument, command,
                    original_fields, currentSeconds, cursor, onFrame >>

\* src/at/on.cpp 55-57: std::system(command.c_str()); return 0;
AtRun ==
    /\ onRev = "at" /\ pc = "on_run"
    /\ \E r \in SystemResults : systemResult' = r
    /\ Return(0)
    /\ executed' = executed + 1
    /\ UNCHANGED << argv, rev, numFiles, depth, fileMask, heap, fileCount,
                    inaccessibleCount, maxDepth, it, directoriesToProcess, cur,
                    files, out, offered, opened, unlistable, lost, faults,
                    relFailed, calls, progressVars, earlier, i, targetPath,
                    positionals, lastN, lastD, walked,
                    flags, rootStatus, verbose, showProgress, summary, fnVars,
                    onRev >>
    /\ UNCHANGED << argIndex, optVars, timeArgument, command, timeVars, waited,
                    cursor, ub >>

\* The arguments of the model: the options, an unknown option, an output
\* mode, a command, and times with one, two and three fields, in and out of
\* bounds.
OnTokens ==
    { << "-", "h" >>, << "-", "d" >>, << "-", "c" >>, << "-", "o" >>, << "-", "l" >>, << "-", "x" >>,
      << "n" >>, << "d", "i", "r" >>,
      << "0" >>, << "9", "0" >>,
      << "1", "2", ":", "3", "0" >>, << "1", ":", "6", "0" >>,
      << "1", ":", "-", "5" >>, << ":", "5" >>,
      << "1", "2", "0", ":", "0", "0" >>,
      << "3", "6", "0", "0", "0", "0", "0", "0", ":", "0", "0" >>,
      << "2", "6", ":", "0", "0", ":", "0", "0" >>,
      << "2", "3", ":", "5", "9", ":", "5", "9" >> }

OnInit ==
    /\ onRev \in { "on", "at" } /\ OnLocalsInit
    /\ pc = "on_opts"
    /\ argv \in UNION { [ 1..n -> OnTokens ] : n \in 0..MaxOnArgs }
    /\ rev = "cur"
    /\ numFiles = DefaultNumFiles /\ depth = DefaultDepth /\ fileMask = MaskAll
    /\ verbose = FALSE /\ showProgress = FALSE
    /\ LocalsInit
    /\ i = 0 /\ targetPath = "cwd" /\ exitCode = -1
    /\ positionals = << >> /\ lastN = "none" /\ lastD = "none" /\ walked = FALSE
    /\ flags = { } /\ rootStatus = "unchecked"
    /\ callFilename = << >> /\ callMask = << >> /\ matched = "none"
    /\ callSize = << >> /\ text = "none"

OnNext ==
    \/ OnOptFlag \/ OnOptOutput \/ OnOptLength \/ OnOptUnknown \/ OnOptsDone
    \/ OnHelp \/ OnUsage \/ OnExtract
    \/ OnBadFormat \/ OnInvalidValues \/ OnDelay \/ OnClock
    \/ OnWaitBegin \/ OnTick \/ OnLoopEnd \/ OnSleep \/ OnRun \/ OnReturn
    \/ AtUsage \/ AtExtract \/ AtBadFormat \/ AtCompute \/ AtRun

SpecOn == OnInit /\ [][OnNext]_vars

\* The current revision started with up to MaxOnRunArgs arguments, which is
\* what an output mode, a delay and a command together take: the options, an
\* output mode, a command, and a time of each kind (a duration, a time of day,
\* a time sscanf cannot read and a time out of bounds).
OnRunTokens ==
    { << "-", "h" >>, << "-", "d" >>, << "-", "c" >>, << "-", "o" >>, << "-", "l" >>, << "-", "x" >>,
      << "n" >>, << "d", "i", "r" >>, << "9", "0" >>,
      << "1", "2", ":", "3", "0" >>, << "1", ":", "6", "0" >>, << ":", "5" >> }

OnRunInit ==
    /\ onRev = "on" /\ OnLocalsInit
    /\ pc = "on_opts"
    /\ argv \in UNION { [ 1..n -> OnRunTokens ] : n \in 0..MaxOnRunArgs }
    /\ rev = "cur"
    /\ numFiles = DefaultNumFiles /\ depth = DefaultDepth /\ fileMask = MaskAll
    /\ verbose = FALSE /\ showProgress = FALSE
    /\ LocalsInit
    /\ i = 0 /\ targetPath = "cwd" /\ exitCode = -1
    /\ positionals = << >> /\ lastN = "none" /\ lastD = "none" /\ walked = FALSE
    /\ flags = { } /\ rootStatus = "unchecked"
    /\ callFilename = << >> /\ callMask = << >> /\ matched = "none"
    /\ callSize = << >> /\ text = "none"

OnRunNext ==
    \/ OnOptFlag \/ OnOptOutput \/ OnOptLength \/ OnOptUnknown \/ OnOptsDone
    \/ OnHelp \/ OnUsage \/ OnExtract
    \/ OnBadFormat \/ OnInvalidValues \/ OnDelay \/ OnClock
    \/ OnWaitBegin \/ OnTick \/ OnLoopEnd \/ OnSleep \/ OnRun \/ OnReturn

SpecOnRun == OnRunInit /\ [][OnRunNext]_vars

----------------------------------------------------------------------------
\* Vocabulary of the properties.

\* Number of entries of sequence q with size v, and with a size above v.
CountSize(q, v) == Cardinality({ k \in 1..Len(q) : q[k].size = v })
CountAbove(q, v) == Cardinality({ k \in 1..Len(q) : q[k].size > v })
CountOf(q, x) == Cardinality({ k \in 1..Len(q) : q[k] = x })

\* Two sequences hold the same entries the same number of times.
SameBag(a, b) ==
    /\ Len(a) = Len(b)
    /\ \A k \in 1..Len(a) : CountOf(a, a[k]) = CountOf(b, a[k])

\* How many entries of size v the k largest of the offered candidates hold.
TopKCount(k, v) == Min(CountSize(offered, v), Max(0, k - CountAbove(offered, v)))

OfferedPaths == { offered[k].path : k \in 1..Len(offered) }

\* A regular file the mask accepts.
Matching(f) == Matches(rev, f[Len(f)], fileMask)

\* The directory of file f is within the depth limit.
WithinLimit(f) == depth = -1 \/ Level(Parent(f)) <= depth

\* Some directory on the way from the root to file f could not be opened.
BehindUnlistable(f) == \E d \in unlistable : IsPrefix(d, Parent(f))

SortedDescending(q) == \A k \in 1..(Len(q) - 1) : q[k].size >= q[k + 1].size

----------------------------------------------------------------------------
\* C1: after each offer to a selector of capacity K >= 1 (revisions "cur" and
\* "wl"), the retained sizes are, as a multiset, the min(K, n) largest sizes of
\* the n candidates offered so far.
C1_TopKExact ==
    (rev \in { "cur", "wl" } /\ numFiles >= 1 /\ pc \in { "walk", "drain" })
        => \A v \in Sizes : CountSize(heap, v) = TopKCount(numFiles, v)

\* C2: the result lines are ordered by size descending, whether the heap is
\* drained without reversal ("cur", "wl") or drained and reversed ("min").
C2_SortedDescending ==
    /\ SortedDescending(out)
    /\ pc = "done" => SortedDescending(files)

C2_Witness ==
    /\ pc = "done" /\ rev = "min" /\ Len(out) >= 3
    /\ out[1].size > out[2].size /\ out[2].size > out[3].size

\* C3: with numFiles = -1 every candidate offered is retained and every retained
\* candidate is printed: there are as many result lines as candidates.
C3_UnboundedKeepsAll ==
    numFiles = -1 =>
        /\ pc \in { "walk", "drain" } => SameBag(heap, offered)
        /\ pc = "done" => SameBag(out, offered)

C3_Witness ==
    /\ pc = "done" /\ rev = "cur" /\ numFiles = -1 /\ Len(out) = 5

\* C4: with a bounded capacity K >= 1 the heap holds exactly min(K, n) entries,
\* n the number of candidates offered so far, and the output has min(K, N)
\* lines.
C4_HeapSize ==
    numFiles >= 1 =>
        /\ pc \in { "start", "walk", "drain" } => Len(heap) = Min(numFiles, Len(offered))
        /\ pc = "done" => Len(out) = Min(numFiles, Len(offered))

C4_Witness ==
    /\ pc = "walk" /\ numFiles = 2 /\ Len(offered) >= 4 /\ Len(heap) = 2

\* C5: with a depth limit D >= 0, in every revision, only files whose directory
\* is at level <= D are offered and no directory at level >= D + 2 is opened;
\* and a walk that met no failure has offered every matching file whose
\* directory is at level <= D.
C5_DepthPruning ==
    depth >= 0 =>
        /\ \A f \in OfferedPaths : Level(Parent(f)) <= depth
        /\ \A d \in opened : Level(d) <= depth + 1
        /\ (pc = "done" /\ faults = 0 /\ ~ub) =>
              \A f \in AllFiles :
                  (Matching(f) /\ Level(Parent(f)) <= depth) => f \in OfferedPaths

\* C6: when a subdirectory cannot be opened, the walk goes on and every matching
\* regular file of every other reachable directory within the depth limit is
\* offered (revisions "cur" and "wl").
C6_WalkContinues ==
    (pc = "done" /\ rev \in { "cur", "wl" } /\ lost = { } /\ ~relFailed /\ ~ub
        /\ Root \notin unlistable) =>
        \A f \in AllFiles :
            (Matching(f) /\ WithinLimit(f) /\ ~BehindUnlistable(f)) => f \in OfferedPaths

\* C7: a subdirectory that cannot be opened or listed is counted: at the end of
\* a walk with such a subdirectory inaccessibleCount >= 1 (revisions "cur" and
\* "wl").
C7_UnlistableCounted ==
    (pc = "done" /\ rev \in { "cur", "wl" } /\ unlistable \ { Root } # { }) =>
        inaccessibleCount >= 1


\* C8: a run that names a target directory which does not exist or is not a
\* directory ends with a non-zero exit code before any traversal; any other run
\* whose root is a directory ends with exit code 0.  Two positional arguments
\* fill [directory] [filemask]; the run names a bad target when neither is an
\* existing directory.
BadTargetNamed ==
    Len(positionals) = 2 /\ \A k \in 1..2 : positionals[k] \notin ExistingDirs

C8_FatalRoot ==
    (pc = "exit" /\ rootStatus # "unchecked") =>
        /\ BadTargetNamed => (exitCode # 0 /\ ~walked)
        /\ (~BadTargetNamed /\ rootStatus = "dir") => exitCode = 0

\* C9: once -n was parsed, numFiles is -1 or a positive integer.
C9_CapacityDomain ==
    lastN # "none" => (numFiles = -1 \/ numFiles >= 1)

\* C10: while the last value given after -n (after -d) is malformed, the
\* option has its documented default, 50 (-1), whatever earlier arguments set.
C10_MalformedResets ==
    /\ lastN = "bad" => numFiles = DefaultNumFiles
    /\ lastD = "bad" => depth = DefaultDepth

\* C14: whenever a walk has counted an inaccessible entry, the final summary
\* with the count is written to stderr after the results, verbose or not
\* (revisions "cur" and "wl").
C14_SummaryWritten ==
    (pc = "done" /\ rev \in { "cur", "wl" } /\ inaccessibleCount > 0) => summary

\* C15: a run that hid the cursor has shown it again when the process has
\* ended, on every exit path: completion, a walk ended by an error, an
\* interrupt signal during the loop.
C15_CursorRestored ==
    pc \in { "done", "killed", "crashed" } => cursor = "shown"

RECURSIVE Glob(_, _, _, _)
\* The reference matcher: m[k..] against s[j..]; '*' stands for any run of
\* characters, '?' for one character, letters compare without case.
Glob(m, k, s, j) ==
    IF k > Len(m) THEN j > Len(s)
    ELSE IF m[k] = "*"
         THEN Glob(m, k + 1, s, j) \/ (j <= Len(s) /\ Glob(m, k, s, j + 1))
         ELSE /\ j <= Len(s)
              /\ m[k] = "?" \/ ToLower(m[k]) = ToLower(s[j])
              /\ Glob(m, k + 1, s, j + 1)

\* Letters, digits, '.', '*' and '?' only.
GlobAlphabet(str) == \A k \in 1..Len(str) : str[k] # "+"

\* C11: over letters, digits, '.', '*' and '?', matchesFileMask returns what
\* the reference glob matcher returns.
C11_AgreesWithGlob ==
    (pc = "returned" /\ GlobAlphabet(callFilename) /\ GlobAlphabet(callMask))
        => matched = Glob(callMask, 1, callFilename, 1)

\* ("a.A", "*.a") matches although the case differs, as ("report.TXT", "*.txt").
C11_Witness ==
    /\ pc = "returned" /\ matched = TRUE
    /\ callFilename = << "a", ".", "A" >> /\ callMask = << "*", ".", "a" >>

\* The filename is the mask, up to the case of letters.
SameText(a, b) ==
    Len(a) = Len(b) /\ \A k \in 1..Len(a) : ToLower(a[k]) = ToLower(b[k])

\* C12: a mask without '*' and '?' matches exactly the filenames equal to it:
\* each of its characters, regex metacharacter or not, stands for itself.
C12_LiteralSpecials ==
    (pc = "returned" /\ \A k \in 1..Len(callMask) : callMask[k] \notin { "*", "?" })
        => (matched <=> SameText(callFilename, callMask))

\* The units of the claim: the k-th is the unit of 1000^k.
UnitNames == << " KB", " MB", " GB", " TB", " PB", " EB", " ZB", " YB" >>

\* C13: a size below 1000 is rendered as itself with "bytes"; a size of k + 1
\* base-1000 digits is rendered as its leading digit, floor(size / 1000^k), with
\* the k-th unit of KB, MB, ...; the suffix array is never read out of bounds.
C13_FormatFileSize ==
    pc = "returned" =>
        /\ text.unit # "out of bounds"
        /\ text.value = << callSize[1] >>
        /\ text.unit = IF Len(callSize) = 1 THEN " bytes"
                       ELSE UnitNames[Len(callSize) - 1]

\* The smallest size among the entries of q.
MinSize(q) == CHOOSE v \in { q[k].size : k \in 1..Len(q) } :
                  \A k \in 1..Len(q) : v <= q[k].size

\* The wait of on has been computed from a time of day.
ClockComputed ==
    \/ onRev = "on" /\ ~delayMode /\ currentSeconds # -1
    \/ onRev = "at" /\ (pc \in { "on_sleep", "on_run" } \/ executed = 1)

\* C16: in clock mode, for a target hh:mm:ss with hh in 0..23 and mm, ss in
\* 0..59 and any current local time of day, the computed wait is
\* (target - current seconds of day) mod 86400, which lies in 0..86399: a
\* target earlier than now waits until the next day, a target equal to now
\* waits 0 seconds.
C16_ClockWait ==
    (ClockComputed /\ hh \in 0..23 /\ mm \in 0..59 /\ ss \in 0..59)
        => /\ timeDifference = (hh * 3600 + mm * 60 + ss - currentSeconds) % 86400
           /\ timeDifference \in 0..86399

\* 12:30 asked for at 12:30:01 waits 86399 seconds; asked for at 12:30:00 it
\* waits none.
C16_Witness ==
    /\ onRev = "on" /\ ~delayMode /\ hh = 12 /\ mm = 30 /\ ss = 0
    /\ \/ currentSeconds = 45001 /\ timeDifference = 86399
       \/ currentSeconds = 45000 /\ timeDifference = 0 /\ executed = 1

\* The fields of a duration as the user wrote them; the time argument has the
\* form of one, two or three integers separated by colons.
Fields == ScanFields(timeArgument, 3)
WellFormed ==
    /\ Fields # << >> /\ Fields[Len(Fields)].rest = << >>
    /\ \A k \in 1..Len(Fields) : Fields[k].defined
\* A field is negative, a field after the first exceeds 59, or all are zero.
DurationRefused ==
    \/ \E k \in 1..Len(Fields) : Fields[k].val < 0
    \/ \E k \in 2..Len(Fields) : Fields[k].val > 59
    \/ \A k \in 1..Len(Fields) : Fields[k].val = 0
\* wait is hh*3600 + mm*60 + ss for the fields read as ss, mm:ss or hh:mm:ss,
\* with every field after the first in 0..59.
IsDuration(wait) ==
    LET n == Len(Fields)
    IN  /\ n = 1 => wait = Fields[1].val
        /\ n = 2 => wait \div 60 = Fields[1].val /\ wait % 60 = Fields[2].val
        /\ n = 3 => /\ wait \div 3600 = Fields[1].val
                    /\ (wait % 3600) \div 60 = Fields[2].val
                    /\ wait % 60 = Fields[3].val

\* C17: in delay mode a time of 1, 2 or 3 fields is read as ss, mm:ss or
\* hh:mm:ss and the wait is hh*3600 + mm*60 + ss seconds, whatever non-negative
\* integer the leading field is; a negative field, a later field above 59 or a
\* total of 0 ends the program with exit code 1.
C17_DelayWait ==
    ( /\ onRev = "on" /\ delayMode /\ WellFormed
      /\ pc \in { "on_wait", "on_loop", "on_sleep", "on_run", "exited", "killed" } )
        => IF DurationRefused
           THEN pc = "exited" /\ exitCode = 1 /\ executed = 0
           ELSE /\ pc # "killed"
                /\ pc = "exited" => waited = "all"
                /\ IsDuration(timeDifference)

\* C18: on runs the command at most once and only after the whole wait, in
\* every output mode; a run that ends with help or with a usage, option or time
\* error never runs it; the exit code is what the command returned, and 0
\* after the wait when there is no command.
C18_CommandAfterWait ==
    onRev = "on" =>
        /\ executed <= 1
        /\ executed = 1 => /\ waited = "all" /\ command # << >>
                           /\ pc = "exited" /\ exitCode = systemResult
        /\ (pc = "exited" /\ waited # "all") => executed = 0
        /\ (pc = "exited" /\ waited = "all" /\ command = << >>)
               => executed = 0 /\ exitCode = 0
        /\ (pc = "exited" /\ waited = "all" /\ command # << >>) => executed = 1

\* A command that returned 3, run without output after the wait.
C18_Witness ==
    /\ onRev = "on" /\ outputMode = << "n" >> /\ waited = "all"
    /\ executed = 1 /\ systemResult = 3 /\ exitCode = 3

\* C19: when the heap holds K entries, the entry heap.top() examines is the
\* retained entry of smallest size (revisions "cur" and "wl").
C19_TopIsSmallest ==
    (rev \in { "cur", "wl" } /\ pc = "walk" /\ numFiles >= 1 /\ Len(heap) = numFiles)
        => Top(heap).size = MinSize(heap)

\* C20: a candidate offered to a heap of K entries whose size is at most the
\* smallest retained size is not retained: the heap is what it was before the
\* offer, and inaccessibleCount is not incremented.
C20_DiscardUnchanged ==
    [][ ( /\ pc = "walk" /\ numFiles >= 1 /\ Len(heap) = numFiles
          /\ Len(offered') = Len(offered) + 1
          /\ offered'[Len(offered')].size <= MinSize(heap) )
        => (heap' = heap /\ inaccessibleCount' = inaccessibleCount) ]_vars

C20_Witness ==
    /\ pc = "walk" /\ rev = "cur" /\ numFiles = 2 /\ Len(offered) = 3
    /\ offered[3].size <= offered[1].size /\ offered[3].size <= offered[2].size
    /\ SameBag(heap, << offered[1], offered[2] >>)

----------------------------------------------------------------------------
\* The latest call of the file system, and whether this step made it.
LastCall == calls[Len(calls)]
SizeReadFailed(cs) ==
    cs # << >> /\ cs[Len(cs)].call = "size" /\ cs[Len(cs)].answer = "error"

\* C21: when file_size of a matching regular file throws (revisions "cur" and
\* "wl"), the file does not reach the selection, the heap is what it was,
\* inaccessibleCount grows by exactly 1, and the loop goes on with the entry
\* that follows: the walk ends only if there is none.
C21_SizeFailureSkipped ==
    [][ (rev \in { "cur", "wl" } /\ calls' # calls /\ SizeReadFailed(calls'))
        => /\ heap' = heap /\ offered' = offered
           /\ \A k \in 1..Len(heap') : heap'[k].path # calls'[Len(calls')].path
           /\ inaccessibleCount' = inaccessibleCount + 1
           /\ rev = "cur" => /\ it' = Advance(it)
                             /\ pc' = IF it' = << >> THEN "drain" ELSE "walk"
           /\ rev = "wl" => /\ cur' = NextEntry(cur)
                            /\ directoriesToProcess' = directoriesToProcess
                            /\ pc' = WlPc(cur', directoriesToProcess') ]_vars

\* The worklist walker after the size of Root/a.t could not be read: the file
\* is counted as inaccessible and the range-for stands at the next entry.
C21_Witness ==
    /\ rev = "wl" /\ pc = "walk" /\ SizeReadFailed(calls)
    /\ LastCall.path = << << "a", ".", "t" >> >>
    /\ inaccessibleCount = 1 /\ heap = << >> /\ cur # << >> /\ cur[1].idx = 2

\* C22: fileCount counts every regular file met within the depth limit, whether
\* or not the mask accepts its name: after a walk without failures it is the
\* number of regular files within the limit.
C22_CountsEveryFile ==
    (pc \in { "drain", "done" } /\ faults = 0)
        => fileCount = Cardinality({ f \in AllFiles : WithinLimit(f) })

\* C23: a failure to open or list the scan root when the traversal starts is
\* fatal: the function does not go on to drain the heap and write a result
\* list as if the directory were empty.
C23_RootFailureFatal ==
    Root \in unlistable => pc \notin { "drain", "done" }

\* The number of calls c made on path p so far.
CallCount(c, p) ==
    Cardinality({ k \in 1..Len(calls) : calls[k].call = c /\ calls[k].path = p })

\* Call number k of the history cs repeats an earlier one: the same call on
\* the same path.
Repeats(cs, k) ==
    \E j \in 1..(k - 1) : cs[j].call = cs[k].call /\ cs[j].path = cs[k].path

\* Directory d is within the depth limit.
DirWithinLimit(d) == depth = -1 \/ Level(d) <= depth

\* The walk can reach directory d: every directory above it could be listed,
\* and the status of d and of every directory above it could be read.
ReachableDir(d) ==
    \A n \in 0..Len(d) :
        /\ SubSeq(d, 1, n) \notin lost
        /\ n < Len(d) => SubSeq(d, 1, n) \notin unlistable

\* The walk can reach file f: it can reach its directory, which could be listed.
ReachableFile(f) == ReachableDir(Parent(f)) /\ Parent(f) \notin unlistable

\* C24: no step of the worklist walker (revision "wl") lists a directory or
\* examines or measures an entry that an earlier step listed, examined or
\* measured, offers a path that was offered before, or adds to the worklist a
\* directory that is in it or was listed; and when the loop has ended, every
\* directory within the depth limit that the walk can reach was listed exactly
\* once, every regular file in such a directory was examined exactly once, and
\* every such file the mask accepts whose status and size could be read was
\* offered exactly once.
C24_ExactlyOnce ==
    /\ [][ rev = "wl" =>
             /\ \A k \in (Len(calls) + 1)..Len(calls') : ~Repeats(calls', k)
             /\ Len(offered') > Len(offered)
                   => offered'[Len(offered')].path \notin OfferedPaths
             /\ Len(directoriesToProcess') > Len(directoriesToProcess)
                   => LET d == directoriesToProcess'[Len(directoriesToProcess')]
                      IN  CountOf(directoriesToProcess, d) = 0 /\ d \notin opened ]_vars
    /\ []( (rev = "wl" /\ pc = "drain") =>
             /\ \A d \in Dirs :
                   (DirWithinLimit(d) /\ ReachableDir(d)) => CallCount("open", d) = 1
             /\ \A f \in AllFiles :
                   (WithinLimit(f) /\ ReachableFile(f))
                       => /\ CallCount("status", f) = 1
                          /\ (Matching(f) /\ f \notin lost)
                                => Cardinality({ k \in 1..Len(offered) :
                                                    offered[k].path = f }) = 1 )

\* The worklist walker when the loop has ended on the whole tree without failures:
\* five directories listed once each, five files offered once each.
C24_Witness ==
    /\ rev = "wl" /\ pc = "drain" /\ depth = -1 /\ fileMask = MaskAll /\ faults = 0
    /\ \A d \in Dirs : CallCount("open", d) = 1
    /\ Len(offered) = 5 /\ OfferedPaths = AllFiles

\* C25: the worklist loop of listLargestFiles ends on every tree, depth limit
\* and pattern of failures: a call that has started reaches the state where
\* directoriesToProcess is empty and the result lines are written.
C25_WalkTerminates ==
    (pc = "start") ~> (pc = "done" /\ directoriesToProcess = << >> /\ cur = << >>)

\* C26: while progress is enabled, two consecutive status lines written during
\* one walk are at least 100 ms apart, whichever statement writes them.
C26_RendersThrottled ==
    showProgress => (rendered.gap = -1 \/ rendered.gap >= ThrottleMs)

C28_CountersMonotone ==
    /\ [](pc = "start" => (fileCount = 0 /\ inaccessibleCount = 0 /\ maxDepth = 0))
    /\ [][ pc' # "killed"
             => /\ fileCount' >= fileCount
                /\ inaccessibleCount' >= inaccessibleCount
                /\ maxDepth' >= maxDepth ]_vars

\* A walk of the current revision that has counted two files and one
\* inaccessible entry and has been one level below the root.
C28_Witness ==
    /\ rev = "cur" /\ pc = "walk"
    /\ fileCount = 2 /\ inaccessibleCount = 1 /\ maxDepth = 1

\* C29: the depth the walker assigns to an entry is the number of directory
\* levels below the scan root at which the entry resides, 1 for an entry directly
\* inside the root: that is the length of its path below the root.  This number
\* is what is compared with the limit, so no entry deeper than the limit is
\* offered, and what is reported as the largest depth seen.
C29_DepthNumbering ==
    /\ (rev \in { "min", "cur" } /\ pc = "walk" /\ it # << >>)
           => ItDepth = Len(ItPath)
    /\ (rev = "wl" /\ pc = "walk" /\ cur # << >> /\ ~relFailed)
           => cur[1].depth = Len(CurPath)
    /\ (depth # -1 /\ ~relFailed)
           => \A k \in 1..Len(offered) : Len(offered[k].path) <= depth
    /\ (offered # << >> /\ ~relFailed)
           => \E k \in 1..Len(offered) : maxDepth = Len(offered[k].path)

\* C30: heap.top() is evaluated only when the heap holds an entry, for every
\* capacity that reaches listLargestFiles, 0 included: no walk executes the
\* undefined read.
C30_TopOfNonEmptyHeap ==
    pc \in { "walk", "drain", "done", "crashed" } => ~ub

====
